---- MODULE Spec2Model ----
(***************************************************************************)
(* Model of the video-forwarding pipeline of auto_upload_tiktok:           *)
(*   - the SQLite store (tables accounts and videos),                      *)
(*   - the discovery loop (AccountMonitor),                                *)
(*   - the processing pipeline (VideoProcessor) with its three admission   *)
(*     channels and the immediate-processing limiter,                      *)
(*   - the scheduler that starts discovery ticks and drains.               *)
(* Each goroutine is a process whose position is a pc field; every store   *)
(* call and every external call is one step.                               *)
(***************************************************************************)
EXTENDS Integers, Sequences, FiniteSets, TLC

(***************************************************************************)
(* Bounds of the model.                                                    *)
(***************************************************************************)
\* cfg.WorkerPoolSize, cfg.MaxConcurrentDownloads, cfg.MaxConcurrentUploads
WorkerPoolSize == 1
MaxConcurrentDownloads == 1
MaxConcurrentUploads == 1
\* the most videos one source listing holds (maxResults of GetLatestVideos)
MaxResults == 4
\* scheduler firings in the pipeline scenario: discovery ticks and drains
PipelineTicks == 1
PipelineDrains == 1
\* overlapping discovery ticks in the concurrent-discovery scenario
DiscoveryTicks == 2
\* successive discovery ticks in the bootstrap scenario, and its clock advances
BootstrapTicks == 2
MaxClockSteps == 1
\* the clock (in hours) at the start, and the hours one clock advance takes
StartTime == 100
ClockStep == 2
\* the calls made to the AccountManager in the account scenarios
MaxAdminCalls == 3
\* the entries of config.BootstrapAccounts, and the starts of the program on one store
MaxBootstrapEntries == 3
ProgramStarts == 2

(***************************************************************************)
(* Program constants.                                                      *)
(***************************************************************************)
\* time.Now().Add(-24 * time.Hour): the bootstrap window, in hours
BootstrapHours == 24
\* the zero time.Time (IsZero)
ZeroTime == 0

VideoStatusPending == "pending"
VideoStatusDownloading == "downloading"
VideoStatusDownloaded == "downloaded"
VideoStatusUploading == "uploading"
VideoStatusCompleted == "completed"
VideoStatusFailed == "failed"

VARIABLES
    now,                \* the wall clock (hours)
    cfg,                \* the loaded configuration: [TikTokEnableWeb]
    env,                \* the world outside: what the source and the sink hold, which calls can fail
    accounts,           \* table accounts: sequence of rows
    videos,             \* table videos: sequence of rows
    sinkValid,          \* the access tokens the sink accepts
    workerPool,         \* tokens in VideoProcessor.workerPool
    downloadSem,        \* tokens in VideoProcessor.downloadSem
    uploadSem,          \* tokens in VideoProcessor.uploadSem
    processingLimiter,  \* tokens in AccountMonitor.processingLimiter
    tasks,              \* processing goroutines (drain workers, immediate tasks)
    drains,             \* ProcessPendingVideos invocations
    ticks,              \* MonitorAllAccounts invocations
    runs,               \* monitorAccount goroutines
    uploadCalls,        \* history: sink publish calls made per video id
    statusTrail,        \* history: how far each video id got on downloaded -> uploading
    heldBack,           \* history: the video ids a first discovery held back as too old
    admin,              \* the account ids issued so far, and the calls made to the AccountManager
    scheduler           \* cron.Scheduler: its root context, and whether Stop has returned

vars == <<now, cfg, env, accounts, videos, sinkValid, workerPool, downloadSem,
          uploadSem, processingLimiter, tasks, drains, ticks, runs, uploadCalls, statusTrail,
          heldBack, admin, scheduler>>

(***************************************************************************)
(* The catalogue of the source channels (the world outside the program).   *)
(***************************************************************************)
\* the videos that exist on the source platform
VideoIds == {"v1", "v2", "v3", "v4"}
\* the publish instant of each: 1h, 36h and 12h before the start, one later
PublishedAt(v) ==
    CASE v = "v1" -> StartTime - 1
      [] v = "v2" -> StartTime - 36
      [] v = "v3" -> StartTime - 12
      [] OTHER    -> StartTime + 1
\* the channel each video is on: the one the scenario gives it, the channel
\* of the configured job when it gives none
ChannelOf(v) == IF "channelOf" \in DOMAIN env THEN env.channelOf[v] ELSE "UCabc"

Min(a, b) == IF a < b THEN a ELSE b

(***************************************************************************)
(* Table videos (sqlite.VideoRepository).  A row keeps the columns the     *)
(* pipeline reads or writes; title, description, thumbnail_url, video_url  *)
(* and updated_at are carried through unchanged by the code and left out.  *)
(***************************************************************************)
\* the generated ids of uuid.NewString(), one per insert position
Uuids == <<"u1", "u2", "u3", "u4", "u5", "u6">>

\* index of the row with primary key id, 0 when there is none
VideoIndexByID(vs, id) ==
    IF \E i \in DOMAIN vs : vs[i].id = id
    THEN CHOOSE i \in DOMAIN vs : vs[i].id = id /\ \A j \in DOMAIN vs : vs[j].id = id => i <= j
    ELSE 0

\* SELECT ... WHERE youtube_video_id = ?: index of the first such row, 0 for sql.ErrNoRows
GetByYouTubeID(vs, youtubeID) ==
    IF \E i \in DOMAIN vs : vs[i].youtube_video_id = youtubeID
    THEN CHOOSE i \in DOMAIN vs : /\ vs[i].youtube_video_id = youtubeID
                                  /\ \A j \in DOMAIN vs : vs[j].youtube_video_id = youtubeID => i <= j
    ELSE 0

PendingRows(vs) == {i \in DOMAIN vs : vs[i].status = VideoStatusPending}

\* the row of S that ORDER BY created_at ASC puts first (ties in rowid order)
EarliestCreated(vs, S) ==
    CHOOSE i \in S : \A j \in S :
        \/ vs[i].created_at < vs[j].created_at
        \/ (vs[i].created_at = vs[j].created_at /\ i <= j)

RECURSIVE OrderByCreated(_, _)
OrderByCreated(vs, S) ==
    IF S = {} THEN <<>>
    ELSE LET i == EarliestCreated(vs, S)
         IN  <<vs[i]>> \o OrderByCreated(vs, S \ {i})

\* SELECT ... WHERE status = 'pending' ORDER BY created_at ASC LIMIT ?
GetPendingVideos(vs, limit) ==
    LET all == OrderByCreated(vs, PendingRows(vs))
    IN  SubSeq(all, 1, Min(Len(all), limit))

\* the video object Save writes: a fresh id when it has none, pending when it has no status
SaveDefaults(vs, video) ==
    [video EXCEPT !.id = IF video.id = "" THEN Uuids[Len(vs) + 1] ELSE video.id,
                  !.created_at = IF video.id = "" THEN now ELSE video.created_at,
                  !.status = IF video.status = "" THEN VideoStatusPending ELSE video.status]

\* a plain INSERT into a table without keys: every Save adds a row
SaveVideoAlwaysInserts(vs, video) ==
    [ok |-> TRUE, rows |-> Append(vs, SaveDefaults(vs, video))]
\* INSERT ... ON CONFLICT(id) DO UPDATE SET <every column but id and created_at>
\* a second row with the same youtube_video_id violates the UNIQUE column
SaveVideoOutcome(vs, video) ==
    LET v == SaveDefaults(vs, video)
        i == VideoIndexByID(vs, v.id)
    IN  IF i # 0
        THEN [ok |-> TRUE,
              rows |-> [vs EXCEPT ![i] = [v EXCEPT !.created_at = vs[i].created_at]]]
        ELSE IF GetByYouTubeID(vs, v.youtube_video_id) # 0
        THEN [ok |-> FALSE, rows |-> vs]
        ELSE [ok |-> TRUE, rows |-> Append(vs, v)]

\* UPDATE videos SET status = ?, error_message = ? WHERE id = ?
UpdateStatus(vs, id, status, errorMsg) ==
    [i \in DOMAIN vs |->
        IF vs[i].id = id
        THEN [vs[i] EXCEPT !.status = status, !.error_message = errorMsg]
        ELSE vs[i]]

\* UPDATE videos SET local_file_path = ? WHERE id = ?
UpdateFilePath(vs, id, filePath) ==
    [i \in DOMAIN vs |->
        IF vs[i].id = id THEN [vs[i] EXCEPT !.local_file_path = filePath] ELSE vs[i]]

\* UPDATE videos SET tiktok_video_id = ? WHERE id = ?
UpdateTikTokID(vs, id, tiktokID) ==
    [i \in DOMAIN vs |->
        IF vs[i].id = id THEN [vs[i] EXCEPT !.tiktok_video_id = tiktokID] ELSE vs[i]]

\* history of the status column of row id: 1 once downloaded was written,
\* 2 once uploading was written after that
TrailAfter(trail, id, status) ==
    IF id \notin DOMAIN trail THEN trail
    ELSE IF status = VideoStatusDownloaded /\ trail[id] = 0 THEN [trail EXCEPT ![id] = 1]
    ELSE IF status = VideoStatusUploading /\ trail[id] = 1 THEN [trail EXCEPT ![id] = 2]
    ELSE trail

(***************************************************************************)
(* Table accounts (sqlite.AccountRepository); created_at and updated_at    *)
(* are left out, the rows are kept in created_at order.                    *)
(***************************************************************************)
AccountIndexByID(as, id) ==
    IF \E i \in DOMAIN as : as[i].id = id
    THEN CHOOSE i \in DOMAIN as : as[i].id = id
    ELSE 0

\* SELECT ... WHERE is_active = 1 ORDER BY created_at ASC
GetAllActive(as) == SelectSeq(as, LAMBDA a : a.is_active)

\* UPDATE accounts SET last_video_id = ?, last_checked_at = ? WHERE id = ?
UpdateLastChecked(as, id, lastVideoID, checkedAt) ==
    [i \in DOMAIN as |->
        IF as[i].id = id
        THEN [as[i] EXCEPT !.last_video_id = lastVideoID, !.last_checked_at = checkedAt]
        ELSE as[i]]

\* SELECT ... WHERE youtube_channel_id = ?: index of the row, 0 for sql.ErrNoRows
GetByYouTubeChannelID(as, channelID) ==
    IF \E i \in DOMAIN as : as[i].youtube_channel_id = channelID
    THEN CHOOSE i \in DOMAIN as :
            /\ as[i].youtube_channel_id = channelID
            /\ \A j \in DOMAIN as : as[j].youtube_channel_id = channelID => i <= j
    ELSE 0

\* SELECT ... WHERE tiktok_account_id = ?: index of the row, 0 for sql.ErrNoRows
GetByTikTokAccountID(as, tiktokID) ==
    IF \E i \in DOMAIN as : as[i].tiktok_account_id = tiktokID
    THEN CHOOSE i \in DOMAIN as :
            /\ as[i].tiktok_account_id = tiktokID
            /\ \A j \in DOMAIN as : as[j].tiktok_account_id = tiktokID => i <= j
    ELSE 0

\* SELECT ... WHERE youtube_channel_id = ? AND tiktok_account_id = ?
GetByYouTubeAndTikTok(as, channelID, tiktokID) ==
    IF \E i \in DOMAIN as : as[i].youtube_channel_id = channelID /\ as[i].tiktok_account_id = tiktokID
    THEN CHOOSE i \in DOMAIN as :
            as[i].youtube_channel_id = channelID /\ as[i].tiktok_account_id = tiktokID
    ELSE 0

\* DELETE FROM accounts WHERE id = ?
DeleteAccount(as, id) == SelectSeq(as, LAMBDA a : a.id # id)

\* FOREIGN KEY(account_id) REFERENCES accounts(id) ON DELETE CASCADE
DeleteCascade(vs, accountID) == SelectSeq(vs, LAMBDA v : v.account_id # accountID)

\* an accounts table without UNIQUE columns: every Save goes through
SaveAccountUnchecked(as, account) ==
    LET i == AccountIndexByID(as, account.id)
    IN  IF i # 0 THEN [ok |-> TRUE, rows |-> [as EXCEPT ![i] = account]]
        ELSE [ok |-> TRUE, rows |-> Append(as, account)]

\* INSERT ... ON CONFLICT(id) DO UPDATE SET <every column but id and created_at>
\* youtube_channel_id and tiktok_account_id are UNIQUE columns
SaveAccountOutcome(as, account) ==
    LET i == AccountIndexByID(as, account.id)
        clash == \E j \in DOMAIN as :
                    /\ j # i
                    /\ \/ as[j].youtube_channel_id = account.youtube_channel_id
                       \/ as[j].tiktok_account_id = account.tiktok_account_id
    IN  IF clash THEN [ok |-> FALSE, rows |-> as]
        ELSE IF i # 0 THEN [ok |-> TRUE, rows |-> [as EXCEPT ![i] = account]]
        ELSE [ok |-> TRUE, rows |-> Append(as, account)]

(***************************************************************************)
(* Processes.                                                              *)
(***************************************************************************)
Max(a, b) == IF a > b THEN a ELSE b
DrainIds == 1..PipelineDrains
TickIds == 1..Max(PipelineTicks, Max(DiscoveryTicks, BootstrapTicks))
AccountIds == {"acc1", "acc2"}
\* a processing goroutine: the worker of drain k for a video, or the
\* immediate-processing task that tick k launched for a video
TaskIds == ({"drain"} \X DrainIds \X VideoIds) \cup ({"tick"} \X TickIds \X VideoIds)
IsDrainWorker(t) == t[1] = "drain"
RunIds == TickIds \X AccountIds

NilVideo ==
    [id |-> "", youtube_video_id |-> "", account_id |-> "", local_file_path |-> "",
     status |-> "", error_message |-> "", tiktok_video_id |-> "",
     created_at |-> ZeroTime, published_at |-> ZeroTime]
NilAccount ==
    [id |-> "", youtube_channel_id |-> "", tiktok_account_id |-> "",
     tiktok_access_token |-> "", tiktok_refresh_token |-> "",
     tiktok_token_expires_at |-> ZeroTime, last_checked_at |-> ZeroTime,
     last_video_id |-> "", is_active |-> FALSE]

\* the zero value of tiktok.TokenResponse.Data
NilTokenResponse == [access_token |-> "", refresh_token |-> "", expires_in |-> 0]

\* the locals of one processing goroutine: video, account, tokenResp (zero
\* until a refresh has answered), err and tiktokVideoID; and a history field:
\* the goroutine was blocked at a send when its context was cancelled
IdleTask ==
    [pc |-> "idle", video |-> NilVideo, account |-> NilAccount, tokenResp |-> NilTokenResponse,
     err |-> "", tiktokVideoID |-> "", blockedAtCancel |-> FALSE]

\* a goroutine that has returned from processVideo with error err ("" for nil)
Returned(err) == [IdleTask EXCEPT !.pc = "done", !.err = err]

\* limiterSize of NewAccountMonitor
LimiterSize == IF cfg.WorkerPoolSize <= 0 THEN 1 ELSE cfg.WorkerPoolSize

\* batchSize of ProcessPendingVideos
BatchSize ==
    IF cfg.MaxConcurrentDownloads + cfg.MaxConcurrentUploads <= 0
    THEN (IF cfg.WorkerPoolSize <= 0 THEN 1 ELSE cfg.WorkerPoolSize)
    ELSE cfg.MaxConcurrentDownloads + cfg.MaxConcurrentUploads

\* result.FilePath of a successful extractor run
FilePathOf(youtubeID) == "downloads/" \o youtubeID \o ".mp4"

PipelineUnchanged == UNCHANGED <<now, cfg, env, sinkValid, drains, ticks, runs, heldBack, admin, scheduler>>

(***************************************************************************)
(* VideoProcessor: one processing goroutine.                               *)
(***************************************************************************)
\* a send that never waits: the channel taken as unbounded
WorkerPoolNeverFull == TRUE
\* a send on p.workerPool (capacity cfg.WorkerPoolSize) goes through
WorkerPoolHasRoom == workerPool < cfg.WorkerPoolSize

\* a send that never waits: the semaphore taken as unbounded
DownloadSemNeverFull == TRUE
\* a send on p.downloadSem (capacity cfg.MaxConcurrentDownloads) goes through
DownloadSemHasRoom == downloadSem < cfg.MaxConcurrentDownloads

\* a send on p.uploadSem (capacity cfg.MaxConcurrentUploads) goes through
UploadSemHasRoom == uploadSem < cfg.MaxConcurrentUploads

\* ProcessPendingVideos, the worker goroutine: p.workerPool <- struct{}{}
AcquireWorkerSlot(t) ==
    /\ IsDrainWorker(t)
    /\ tasks[t].pc = "acquire"
    /\ WorkerPoolHasRoom
    /\ workerPool' = workerPool + 1
    /\ tasks' = [tasks EXCEPT ![t].pc = "begin"]
    /\ UNCHANGED <<accounts, videos, downloadSem, uploadSem, processingLimiter,
                   uploadCalls, statusTrail>>
    /\ PipelineUnchanged

\* AccountMonitor.baseCtx is the root context of the scheduler: SetBaseContext
\* was called with it; otherwise it is the context.Background() of
\* NewAccountMonitor
BaseCtxIsRoot == "baseCtx" \in DOMAIN env /\ env.baseCtx = "root"

\* the context goroutine t runs under is derived from the root context of the
\* scheduler: the one passed to ProcessPendingVideos for a drain worker,
\* m.baseCtx for an immediate task
UnderRootContext(t) == IsDrainWorker(t) \/ BaseCtxIsRoot

\* the context processVideo runs under is done
ContextDone(t) == UnderRootContext(t) /\ scheduler.cancelled

\* a send that never waits: the limiter taken as unbounded
LimiterNeverFull == TRUE
\* a send on m.processingLimiter (capacity limiterSize) goes through
LimiterHasRoom == processingLimiter < LimiterSize

\* the cases of the select of acquireProcessingSlot that can be taken: TRUE
\* for the send on the limiter, FALSE for <-ctx.Done()
SelectCases(t) ==
    (IF LimiterHasRoom THEN {TRUE} ELSE {}) \cup (IF ContextDone(t) THEN {FALSE} ELSE {})

\* launchImmediateProcessing, the goroutine: acquireProcessingSlot; when it
\* returns false the goroutine returns before the release is deferred
AcquireProcessingSlot(t) ==
    /\ ~IsDrainWorker(t)
    /\ tasks[t].pc = "acquire"
    /\ \E acquired \in SelectCases(t) :
        IF acquired
        THEN /\ processingLimiter' = processingLimiter + 1
             /\ tasks' = [tasks EXCEPT ![t].pc = "begin"]
        ELSE /\ UNCHANGED processingLimiter
             /\ tasks' = [tasks EXCEPT
                    ![t] = Returned("context cancelled before slot available")]
    /\ UNCHANGED <<accounts, videos, workerPool, downloadSem, uploadSem,
                   uploadCalls, statusTrail>>
    /\ PipelineUnchanged

\* the error of a store call that failed
StoreError == "database is locked"

\* a write of processVideo to the table videos fails or not
WriteFails == IF "store" \in env.faults THEN BOOLEAN ELSE {FALSE}

\* downloadVideo: UpdateStatus(downloading); on an error downloadVideo returns it
MarkDownloading(t) ==
    /\ tasks[t].pc = "begin"
    /\ \E fail \in WriteFails :
        IF fail
        THEN /\ tasks' = [tasks EXCEPT ![t].pc = "failing", ![t].err = StoreError]
             /\ UNCHANGED <<videos, statusTrail>>
        ELSE /\ videos' = UpdateStatus(videos, tasks[t].video.id, VideoStatusDownloading, "")
             /\ statusTrail' = TrailAfter(statusTrail, tasks[t].video.id, VideoStatusDownloading)
             /\ tasks' = [tasks EXCEPT ![t].pc = "waitDownload"]
    /\ UNCHANGED <<accounts, workerPool, downloadSem, uploadSem, processingLimiter, uploadCalls>>
    /\ PipelineUnchanged

\* downloadVideo: p.downloadSem <- struct{}{}, then the extractor is called
AcquireDownloadSem(t) ==
    /\ tasks[t].pc = "waitDownload"
    /\ DownloadSemHasRoom
    /\ downloadSem' = downloadSem + 1
    /\ tasks' = [tasks EXCEPT ![t].pc = "downloading"]
    /\ UNCHANGED <<accounts, videos, workerPool, uploadSem, processingLimiter,
                   uploadCalls, statusTrail>>
    /\ PipelineUnchanged

\* what DownloadVideo(downloadCtx) can return: exec.CommandContext ends the
\* extractor when the context is done
DownloadOutcomes(t) ==
    IF ContextDone(t) THEN {FALSE}
    ELSE IF "extractor" \in env.faults THEN BOOLEAN ELSE {TRUE}

\* downloadVideo: DownloadVideo returns; on an error the semaphore is released
\* on the way out and processVideo goes on to write failed
DownloadReturns(t) ==
    /\ tasks[t].pc = "downloading"
    /\ \E ok \in DownloadOutcomes(t) :
        IF ok
        THEN /\ tasks' = [tasks EXCEPT ![t].pc = "persistPath"]
             /\ UNCHANGED downloadSem
        ELSE /\ tasks' = [tasks EXCEPT ![t].pc = "failing", ![t].err = "download failed"]
             /\ downloadSem' = downloadSem - 1
    /\ UNCHANGED <<accounts, videos, workerPool, uploadSem, processingLimiter,
                   uploadCalls, statusTrail>>
    /\ PipelineUnchanged

\* downloadVideo: UpdateFilePath, video.LocalFilePath = result.FilePath; on an
\* error downloadVideo returns it (the deferred release of downloadSem)
PersistFilePath(t) ==
    /\ tasks[t].pc = "persistPath"
    /\ \E fail \in WriteFails :
        LET path == FilePathOf(tasks[t].video.youtube_video_id)
        IN  IF fail
            THEN /\ tasks' = [tasks EXCEPT ![t].pc = "failing", ![t].err = StoreError]
                 /\ downloadSem' = downloadSem - 1
                 /\ UNCHANGED videos
            ELSE /\ videos' = UpdateFilePath(videos, tasks[t].video.id, path)
                 /\ tasks' = [tasks EXCEPT ![t].pc = "markDownloaded",
                                           ![t].video.local_file_path = path]
                 /\ UNCHANGED downloadSem
    /\ UNCHANGED <<accounts, workerPool, uploadSem, processingLimiter,
                   uploadCalls, statusTrail>>
    /\ PipelineUnchanged

\* downloadVideo: UpdateStatus(downloaded), return (the deferred release of downloadSem)
MarkDownloaded(t) ==
    /\ tasks[t].pc = "markDownloaded"
    /\ \E fail \in WriteFails :
        IF fail
        THEN /\ tasks' = [tasks EXCEPT ![t].pc = "failing", ![t].err = StoreError]
             /\ UNCHANGED <<videos, statusTrail>>
        ELSE /\ videos' = UpdateStatus(videos, tasks[t].video.id, VideoStatusDownloaded, "")
             /\ statusTrail' = TrailAfter(statusTrail, tasks[t].video.id, VideoStatusDownloaded)
             /\ tasks' = [tasks EXCEPT ![t].pc = "loadAccount"]
    /\ downloadSem' = downloadSem - 1
    /\ UNCHANGED <<accounts, workerPool, uploadSem, processingLimiter, uploadCalls>>
    /\ PipelineUnchanged

\* url.QueryEscape on the strings the configuration holds; a string of
\* letters, digits and dots is left as it is
QueryEscape(s) ==
    CASE s = "http://localhost:8080/api/tiktok/callback"
            -> "http%3A%2F%2Flocalhost%3A8080%2Fapi%2Ftiktok%2Fcallback"
      [] s = "user.info.basic,video.upload,video.publish"
            -> "user.info.basic%2Cvideo.upload%2Cvideo.publish"
      [] OTHER -> s

\* promptManualAuthorization: the authorize URL of the configured application
AuthorizeURL ==
    "https://www.tiktok.com/v2/auth/authorize?client_key=" \o QueryEscape(cfg.TikTokAPIKey)
        \o "&scope=" \o QueryEscape("user.info.basic,video.upload,video.publish")
        \o "&response_type=code&redirect_uri=" \o QueryEscape(cfg.TikTokRedirectURI)
        \o "&state=" \o QueryEscape("12345")

\* the error of line 212: the account has no access token
TokenNotConfiguredError(accountID) ==
    "TikTok access token not configured for account " \o accountID
        \o ". Re-authorize via " \o AuthorizeURL
        \o " and exchange the returned code for a token"

\* the same error with no authorize URL in it
NoRefreshTokenPlainError(accountID) ==
    "TikTok access token is invalid or expired for account " \o accountID
        \o " and no refresh token available"
\* the error of line 254: the token is rejected and there is no refresh token
NoRefreshTokenError(accountID) ==
    "TikTok access token is invalid or expired for account " \o accountID
        \o " and no refresh token available. Re-authorize via " \o AuthorizeURL
        \o " and exchange the returned code for a new token"

\* the error of line 231: the token is rejected and the refresh call failed
RefreshFailedError(accountID) ==
    "TikTok access token is invalid and refresh failed for account " \o accountID
        \o ": token refresh failed. Please update the token"

\* uploadVideo: GetByID and the checks before the token is verified
LoadAccount(t) ==
    /\ tasks[t].pc = "loadAccount"
    /\ LET i == AccountIndexByID(accounts, tasks[t].video.account_id)
           account == IF i = 0 THEN NilAccount ELSE accounts[i]
       IN  tasks' =
             IF i = 0
             THEN [tasks EXCEPT ![t].pc = "failing", ![t].err = "account mapping not found"]
             ELSE IF account.tiktok_account_id = ""
             THEN [tasks EXCEPT ![t].pc = "failing", ![t].account = account,
                                ![t].err = "TikTok account ID not configured"]
             ELSE IF cfg.TikTokEnableWeb
             THEN [tasks EXCEPT ![t].pc = "markUploading", ![t].account = account]
             ELSE IF account.tiktok_access_token = ""
             THEN [tasks EXCEPT ![t].pc = "failing", ![t].account = account,
                                ![t].err = TokenNotConfiguredError(account.id)]
             ELSE [tasks EXCEPT ![t].pc = "verify", ![t].account = account]
    /\ UNCHANGED <<accounts, videos, workerPool, downloadSem, uploadSem, processingLimiter,
                   uploadCalls, statusTrail>>
    /\ PipelineUnchanged

\* the outcomes of VerifyAccessToken: HTTP 200 or not, or a transport error
VerifyOutcomes(token) ==
    {IF token \in sinkValid THEN "valid" ELSE "invalid"}
        \cup (IF ("sink" \in env.faults) THEN {"error"} ELSE {})

\* uploadVideo: VerifyAccessToken and the branch on its result
VerifyToken(t) ==
    /\ tasks[t].pc = "verify"
    /\ \E out \in VerifyOutcomes(tasks[t].account.tiktok_access_token) :
        tasks' =
          IF out = "error"
          THEN [tasks EXCEPT ![t].pc = "failing", ![t].err = "failed to verify access token"]
          ELSE IF out = "valid"
          THEN [tasks EXCEPT ![t].pc = "markUploading"]
          ELSE IF tasks[t].account.tiktok_refresh_token # ""
          THEN [tasks EXCEPT ![t].pc = "refresh"]
          ELSE [tasks EXCEPT ![t].pc = "failing",
                            ![t].err = NoRefreshTokenError(tasks[t].account.id)]
    /\ UNCHANGED <<accounts, videos, workerPool, downloadSem, uploadSem, processingLimiter,
                   uploadCalls, statusTrail>>
    /\ PipelineUnchanged

\* what the sink answers to a refresh that it does not report as an error: a
\* new access token with or without a refresh token and a lifetime, or (an
\* answer with status 200, no error code and no data) the zero response
TokenResponses ==
    {[access_token |-> "T1", refresh_token |-> "R1", expires_in |-> 2],
     [access_token |-> "T1", refresh_token |-> "", expires_in |-> 0]}
        \cup (IF "tokens" \in env.faults THEN {NilTokenResponse} ELSE {})

\* what RefreshAccessToken returns: an error, or the token response
RefreshResults ==
    {[err |-> TRUE, data |-> NilTokenResponse]}
        \cup {[err |-> FALSE, data |-> d] : d \in TokenResponses}

\* the refresh token is always taken from the response
AlwaysReturnedRefreshToken(old, returned) == returned
\* lines 236-238: the refresh token of the response replaces the old one
\* only when it is not empty
KeptRefreshToken(old, returned) == IF returned # "" THEN returned ELSE old

\* uploadVideo: RefreshAccessToken; on success the new tokens are put in the
\* account object (lines 235-242), on an error the task goes on to write failed
RefreshToken(t) ==
    /\ tasks[t].pc = "refresh"
    /\ \E res \in RefreshResults :
        IF res.err
        THEN /\ tasks' = [tasks EXCEPT ![t].pc = "failing",
                                           ![t].err = RefreshFailedError(tasks[t].account.id)]
             /\ UNCHANGED sinkValid
        ELSE /\ sinkValid' = sinkValid \cup ({res.data.access_token} \ {""})
             /\ tasks' = [tasks EXCEPT
                  ![t].pc = "saveAccount",
                  ![t].tokenResp = res.data,
                  ![t].account.tiktok_access_token = res.data.access_token,
                  ![t].account.tiktok_refresh_token = KeptRefreshToken(@, res.data.refresh_token),
                  ![t].account.tiktok_token_expires_at =
                      IF res.data.expires_in > 0 THEN now + res.data.expires_in ELSE @]
    /\ UNCHANGED <<accounts, videos, workerPool, downloadSem, uploadSem, processingLimiter,
                   uploadCalls, statusTrail>>
    /\ UNCHANGED <<now, cfg, env, drains, ticks, runs, heldBack, admin, scheduler>>

\* uploadVideo: accountRepo.Save(account) of the refreshed account object
SaveRefreshedAccount(t) ==
    /\ tasks[t].pc = "saveAccount"
    /\ \E fail \in (IF ("store" \in env.faults) THEN BOOLEAN ELSE {FALSE}) :
        LET out == SaveAccountOutcome(accounts, tasks[t].account)
        IN  IF fail \/ ~out.ok
            THEN /\ tasks' = [tasks EXCEPT ![t].pc = "failing",
                                           ![t].err = "failed to save refreshed token"]
                 /\ UNCHANGED accounts
            ELSE /\ tasks' = [tasks EXCEPT ![t].pc = "markUploading"]
                 /\ accounts' = out.rows
    /\ UNCHANGED <<videos, workerPool, downloadSem, uploadSem, processingLimiter,
                   uploadCalls, statusTrail>>
    /\ PipelineUnchanged

\* uploadVideo: UpdateStatus(uploading)
MarkUploading(t) ==
    /\ tasks[t].pc = "markUploading"
    /\ \E fail \in WriteFails :
        IF fail
        THEN /\ tasks' = [tasks EXCEPT ![t].pc = "failing", ![t].err = StoreError]
             /\ UNCHANGED <<videos, statusTrail>>
        ELSE /\ videos' = UpdateStatus(videos, tasks[t].video.id, VideoStatusUploading, "")
             /\ statusTrail' = TrailAfter(statusTrail, tasks[t].video.id, VideoStatusUploading)
             /\ tasks' = [tasks EXCEPT ![t].pc = "waitUpload"]
    /\ UNCHANGED <<accounts, workerPool, downloadSem, uploadSem, processingLimiter, uploadCalls>>
    /\ PipelineUnchanged

\* uploadVideo: p.uploadSem <- struct{}{}, then tiktokService.UploadVideo is called
AcquireUploadSem(t) ==
    /\ tasks[t].pc = "waitUpload"
    /\ UploadSemHasRoom
    /\ uploadSem' = uploadSem + 1
    /\ uploadCalls' = [uploadCalls EXCEPT ![tasks[t].video.youtube_video_id] = @ + 1]
    /\ tasks' = [tasks EXCEPT ![t].pc = "uploading"]
    /\ UNCHANGED <<accounts, videos, workerPool, downloadSem, processingLimiter, statusTrail>>
    /\ PipelineUnchanged

\* uploadReq of uploadVideo (lines 274-281)
UploadRequest(t) ==
    [AccessToken |-> tasks[t].account.tiktok_access_token,
     OpenID |-> tasks[t].account.tiktok_account_id,
     VideoPath |-> tasks[t].video.local_file_path]

\* what tiktokService.UploadVideo returns for the request of task t: an error
\* (always one when the request fails its own checks or the sink rejects the
\* token), or the video id of publishVideo
UploadResults(t) ==
    LET bad == \/ UploadRequest(t).AccessToken = ""
               \/ UploadRequest(t).OpenID = ""
               \/ UploadRequest(t).VideoPath = ""
        rejected == UploadRequest(t).AccessToken \notin sinkValid
    IN  (IF bad \/ rejected \/ "sink" \in env.faults THEN {[err |-> TRUE, id |-> ""]} ELSE {})
          \cup (IF bad \/ rejected THEN {}
                ELSE {[err |-> FALSE, id |-> id] : id \in env.sinkVideoIds})

\* uploadVideo: UploadVideo returns; on an error uploadSem is released on the way out
UploadReturns(t) ==
    /\ tasks[t].pc = "uploading"
    /\ \E res \in UploadResults(t) :
        IF res.err
        THEN /\ tasks' = [tasks EXCEPT ![t].pc = "failing", ![t].err = "upload failed"]
             /\ uploadSem' = uploadSem - 1
        ELSE /\ tasks' = [tasks EXCEPT ![t].pc = "persistTikTokID", ![t].tiktokVideoID = res.id]
             /\ UNCHANGED uploadSem
    /\ UNCHANGED <<accounts, videos, workerPool, downloadSem, processingLimiter,
                   uploadCalls, statusTrail>>
    /\ PipelineUnchanged

\* uploadVideo: UpdateTikTokID, return (the deferred release of uploadSem)
PersistTikTokID(t) ==
    /\ tasks[t].pc = "persistTikTokID"
    /\ \E fail \in WriteFails :
        IF fail
        THEN /\ tasks' = [tasks EXCEPT ![t].pc = "failing", ![t].err = StoreError]
             /\ UNCHANGED videos
        ELSE /\ videos' = UpdateTikTokID(videos, tasks[t].video.id, tasks[t].tiktokVideoID)
             /\ tasks' = [tasks EXCEPT ![t].pc = "markCompleted"]
    /\ uploadSem' = uploadSem - 1
    /\ UNCHANGED <<accounts, workerPool, downloadSem, processingLimiter, uploadCalls, statusTrail>>
    /\ PipelineUnchanged

\* no deferred release: the goroutine returns with its token left in the channel
KeepSlot(t) == UNCHANGED <<workerPool, processingLimiter>>
\* the goroutine's deferred release: <-p.workerPool of a drain worker,
\* releaseProcessingSlot (a receive that does nothing on an empty channel) of
\* an immediate task
ReleaseSlot(t) ==
    IF IsDrainWorker(t)
    THEN /\ workerPool' = workerPool - 1
         /\ UNCHANGED processingLimiter
    ELSE /\ processingLimiter' = IF processingLimiter > 0 THEN processingLimiter - 1 ELSE 0
         /\ UNCHANGED workerPool

\* processVideo: return UpdateStatus(completed); the error of the write is
\* the error processVideo returns
MarkCompleted(t) ==
    /\ tasks[t].pc = "markCompleted"
    /\ \E fail \in WriteFails :
        IF fail
        THEN /\ tasks' = [tasks EXCEPT ![t] = Returned(StoreError)]
             /\ UNCHANGED <<videos, statusTrail>>
        ELSE /\ videos' = UpdateStatus(videos, tasks[t].video.id, VideoStatusCompleted, "")
             /\ statusTrail' = TrailAfter(statusTrail, tasks[t].video.id, VideoStatusCompleted)
             /\ tasks' = [tasks EXCEPT ![t] = Returned(tasks[t].err)]
    /\ ReleaseSlot(t)
    /\ UNCHANGED <<accounts, downloadSem, uploadSem, uploadCalls>>
    /\ PipelineUnchanged

\* processVideo: UpdateStatus(failed, err.Error()) after downloadVideo or
\* uploadVideo returned an error, return; the error of this write is dropped
MarkFailed(t) ==
    /\ tasks[t].pc = "failing"
    /\ \E fail \in WriteFails :
        IF fail
        THEN UNCHANGED <<videos, statusTrail>>
        ELSE /\ videos' = UpdateStatus(videos, tasks[t].video.id, VideoStatusFailed, tasks[t].err)
             /\ statusTrail' = TrailAfter(statusTrail, tasks[t].video.id, VideoStatusFailed)
    /\ ReleaseSlot(t)
    /\ tasks' = [tasks EXCEPT ![t] = Returned(tasks[t].err)]
    /\ UNCHANGED <<accounts, downloadSem, uploadSem, uploadCalls>>
    /\ PipelineUnchanged

(***************************************************************************)
(* VideoProcessor.ProcessPendingVideos: one invocation by the scheduler.   *)
(***************************************************************************)
DrainTasks(d) == {t \in TaskIds : IsDrainWorker(t) /\ t[2] = d}

\* a ProcessPendingVideos invocation that has not started, with a history
\* field: the ids of the rows that were pending when it started
IdleDrain == [pc |-> "idle", result |-> "", pendingAtStart |-> {}]

\* Scheduler.processVideosJob: the cron entry (or Start) fires the job
StartDrain(d) ==
    /\ ~scheduler.stopped
    /\ d <= env.drains
    /\ drains[d].pc = "idle"
    /\ drains' = [drains EXCEPT ![d].pc = "loop",
                                ![d].pendingAtStart = {videos[i].id : i \in PendingRows(videos)}]
    /\ UNCHANGED <<now, cfg, env, accounts, videos, sinkValid, workerPool, downloadSem,
                   uploadSem, processingLimiter, tasks, ticks, runs, uploadCalls, statusTrail, heldBack, admin, scheduler>>

\* one turn of the loop: return ctx.Err() when the context is done;
\* GetPendingVideos(batchSize); return nil on an empty list, else one worker
\* goroutine per video
DrainListPending(d) ==
    /\ drains[d].pc = "loop"
    /\ LET batch == GetPendingVideos(videos, BatchSize)
       IN  IF scheduler.cancelled
           THEN /\ drains' = [drains EXCEPT ![d].pc = "done", ![d].result = "error"]
                /\ UNCHANGED tasks
           ELSE IF Len(batch) = 0
           THEN /\ drains' = [drains EXCEPT ![d].pc = "done", ![d].result = "ok"]
                /\ UNCHANGED tasks
           ELSE /\ drains' = [drains EXCEPT ![d].pc = "wait"]
                /\ tasks' = [t \in TaskIds |->
                      IF t \in DrainTasks(d) /\ \E i \in DOMAIN batch : batch[i].id = t[3]
                      THEN [IdleTask EXCEPT
                              !.pc = "acquire",
                              !.video = batch[CHOOSE i \in DOMAIN batch : batch[i].id = t[3]]]
                      ELSE tasks[t]]
    /\ UNCHANGED <<now, cfg, env, accounts, videos, sinkValid, workerPool, downloadSem,
                   uploadSem, processingLimiter, ticks, runs, uploadCalls, statusTrail, heldBack, admin, scheduler>>

\* wg.Wait() returns: with an error in errChan the invocation returns it,
\* otherwise the loop goes round again
DrainCollect(d) ==
    /\ drains[d].pc = "wait"
    /\ \A t \in DrainTasks(d) : tasks[t].pc \in {"idle", "done"}
    /\ drains' = IF \E t \in DrainTasks(d) : tasks[t].pc = "done" /\ tasks[t].err # ""
                 THEN [drains EXCEPT ![d].pc = "done", ![d].result = "error"]
                 ELSE [drains EXCEPT ![d].pc = "loop"]
    /\ tasks' = [t \in TaskIds |-> IF t \in DrainTasks(d) THEN IdleTask ELSE tasks[t]]
    /\ UNCHANGED <<now, cfg, env, accounts, videos, sinkValid, workerPool, downloadSem,
                   uploadSem, processingLimiter, ticks, runs, uploadCalls, statusTrail, heldBack, admin, scheduler>>

\* Scheduler.processVideosJob returns; the cron entry fires it again later
DrainReturns(d) ==
    /\ drains[d].pc = "done"
    /\ drains' = [drains EXCEPT ![d] = IdleDrain]
    /\ UNCHANGED <<now, cfg, env, accounts, videos, sinkValid, workerPool, downloadSem,
                   uploadSem, processingLimiter, tasks, ticks, runs, uploadCalls, statusTrail, heldBack, admin, scheduler>>

\* goroutine t is at a send on a channel that has no room: p.workerPool or
\* m.processingLimiter, p.downloadSem, p.uploadSem
Blocked(t) ==
    \/ /\ tasks[t].pc = "acquire"
       /\ IF IsDrainWorker(t) THEN ~WorkerPoolHasRoom ELSE ~LimiterHasRoom
    \/ tasks[t].pc = "waitDownload" /\ ~DownloadSemHasRoom
    \/ tasks[t].pc = "waitUpload" /\ ~UploadSemHasRoom

\* Scheduler.Stop: s.cancel(), s.cron.Stop() (no further firing; the context
\* it returns, done when the running jobs are, is dropped), return; the
\* goroutines under the root context that are blocked at a send are noted
Stop ==
    /\ ~scheduler.stopped
    /\ scheduler' = [cancelled |-> TRUE, stopped |-> TRUE]
    /\ tasks' = [t \in TaskIds |->
                    [tasks[t] EXCEPT !.blockedAtCancel = UnderRootContext(t) /\ Blocked(t)]]
    /\ UNCHANGED <<now, cfg, env, accounts, videos, sinkValid, workerPool, downloadSem,
                   uploadSem, processingLimiter, drains, ticks, runs, uploadCalls,
                   statusTrail, heldBack, admin>>

(***************************************************************************)
(* AccountManager and bootstrapAccounts.  A call is one step: its reads    *)
(* and its one write are made on a store with a single connection, and the *)
(* UNIQUE columns are checked by the write itself.                         *)
(***************************************************************************)
\* the token bootstrapAccounts stores for a job configured without one
PlaceholderToken == "PLACEHOLDER_TOKEN_UPDATE_VIA_EXCHANGE_CODE_API"

\* the channel ids, sink account ids and tokens the calls are made with
ChannelIds == {"UCabc", "UCdef"}
SinkAccountIds == {"ttk123", "ttk456"}
\* the account ids the calls are made with
CallAccountIds == {"acc1", "acc2"}

\* uuid.NewString() of AccountRepository.Save: the n-th id issued
AccountUuid(n) == "acc" \o ToString(n)

\* the call returns: op with result ok, having issued n ids
Called(op, ok, n) ==
    [issued |-> admin.issued + n, calls |-> admin.calls + 1, last |-> [op |-> op, ok |-> ok]]

\* CreateAccountMapping: [ok, rows, id] for the table as
CreateOutcome(as, youtubeChannelID, tiktokAccountID, tiktokAccessToken) ==
    IF \/ youtubeChannelID = "" \/ tiktokAccountID = "" \/ tiktokAccessToken = ""
       \/ GetByYouTubeAndTikTok(as, youtubeChannelID, tiktokAccountID) # 0
       \/ GetByYouTubeChannelID(as, youtubeChannelID) # 0
       \/ GetByTikTokAccountID(as, tiktokAccountID) # 0
    THEN [ok |-> FALSE, rows |-> as, id |-> ""]
    ELSE LET account == [NilAccount EXCEPT !.id = AccountUuid(admin.issued + 1),
                                           !.youtube_channel_id = youtubeChannelID,
                                           !.tiktok_account_id = tiktokAccountID,
                                           !.tiktok_access_token = tiktokAccessToken,
                                           !.is_active = TRUE]
             out == SaveAccountOutcome(as, account)
         IN  [ok |-> out.ok, rows |-> out.rows, id |-> account.id]

\* UpdateAccountMapping: an empty string and "nil" leave the field as it is
UpdateOutcome(as, accountID, youtubeChannelID, tiktokAccountID, tiktokAccessToken, isActive) ==
    LET i == AccountIndexByID(as, accountID)
    IN  IF i = 0 THEN [ok |-> FALSE, rows |-> as]
        ELSE SaveAccountOutcome(as,
                [as[i] EXCEPT
                    !.youtube_channel_id = IF youtubeChannelID # "" THEN youtubeChannelID ELSE @,
                    !.tiktok_account_id = IF tiktokAccountID # "" THEN tiktokAccountID ELSE @,
                    !.tiktok_access_token = IF tiktokAccessToken # "" THEN tiktokAccessToken ELSE @,
                    !.is_active = IF isActive = "nil" THEN @ ELSE isActive = "true"])

\* ActivateAccountMapping, DeactivateAccountMapping
SetActiveOutcome(as, accountID, active) ==
    LET i == AccountIndexByID(as, accountID)
    IN  IF i = 0 THEN [ok |-> FALSE, rows |-> as]
        ELSE SaveAccountOutcome(as, [as[i] EXCEPT !.is_active = active])

CreateAccountMapping(youtubeChannelID, tiktokAccountID, tiktokAccessToken) ==
    /\ admin.calls < MaxAdminCalls
    /\ LET out == CreateOutcome(accounts, youtubeChannelID, tiktokAccountID, tiktokAccessToken)
       IN  /\ accounts' = out.rows
           /\ admin' = Called("create", out.ok, IF out.id = "" THEN 0 ELSE 1)
    /\ UNCHANGED <<now, cfg, env, videos, sinkValid, workerPool, downloadSem, uploadSem,
                   processingLimiter, tasks, drains, ticks, runs, uploadCalls, statusTrail, heldBack, scheduler>>

UpdateAccountMapping(accountID, youtubeChannelID, tiktokAccountID, tiktokAccessToken, isActive) ==
    /\ admin.calls < MaxAdminCalls
    /\ LET out == UpdateOutcome(accounts, accountID, youtubeChannelID, tiktokAccountID,
                                tiktokAccessToken, isActive)
       IN  /\ accounts' = out.rows
           /\ admin' = Called("update", out.ok, 0)
    /\ UNCHANGED <<now, cfg, env, videos, sinkValid, workerPool, downloadSem, uploadSem,
                   processingLimiter, tasks, drains, ticks, runs, uploadCalls, statusTrail, heldBack, scheduler>>

\* DeleteAccountMapping: the rows of the videos of the job go with it
DeleteAccountMapping(accountID) ==
    /\ admin.calls < MaxAdminCalls
    /\ IF AccountIndexByID(accounts, accountID) = 0
       THEN /\ admin' = Called("delete", FALSE, 0)
            /\ UNCHANGED <<accounts, videos>>
       ELSE /\ accounts' = DeleteAccount(accounts, accountID)
            /\ videos' = DeleteCascade(videos, accountID)
            /\ admin' = Called("delete", TRUE, 0)
    /\ UNCHANGED <<now, cfg, env, sinkValid, workerPool, downloadSem, uploadSem,
                   processingLimiter, tasks, drains, ticks, runs, uploadCalls, statusTrail, heldBack, scheduler>>

ActivateAccountMapping(accountID) ==
    /\ admin.calls < MaxAdminCalls
    /\ LET out == SetActiveOutcome(accounts, accountID, TRUE)
       IN  /\ accounts' = out.rows
           /\ admin' = Called("activate", out.ok, 0)
    /\ UNCHANGED <<now, cfg, env, videos, sinkValid, workerPool, downloadSem, uploadSem,
                   processingLimiter, tasks, drains, ticks, runs, uploadCalls, statusTrail, heldBack, scheduler>>

DeactivateAccountMapping(accountID) ==
    /\ admin.calls < MaxAdminCalls
    /\ LET out == SetActiveOutcome(accounts, accountID, FALSE)
       IN  /\ accounts' = out.rows
           /\ admin' = Called("deactivate", out.ok, 0)
    /\ UNCHANGED <<now, cfg, env, videos, sinkValid, workerPool, downloadSem, uploadSem,
                   processingLimiter, tasks, drains, ticks, runs, uploadCalls, statusTrail, heldBack, scheduler>>

\* UpdateAccountTokens: an empty string leaves the token as it is, a nil or
\* non-positive expiresIn (0 here) leaves expires_at as it is
UpdateAccountTokens(accountID, accessToken, refreshToken, expiresIn) ==
    /\ admin.calls < MaxAdminCalls
    /\ LET i == AccountIndexByID(accounts, accountID)
           out == IF i = 0 THEN [ok |-> FALSE, rows |-> accounts]
                  ELSE SaveAccountOutcome(accounts,
                          [accounts[i] EXCEPT
                              !.tiktok_access_token = IF accessToken # "" THEN accessToken ELSE @,
                              !.tiktok_refresh_token = IF refreshToken # "" THEN refreshToken ELSE @,
                              !.tiktok_token_expires_at =
                                  IF expiresIn > 0 THEN now + expiresIn ELSE @])
       IN  /\ accounts' = out.rows
           /\ admin' = Called("tokens", out.ok, 0)
    /\ UNCHANGED <<now, cfg, env, videos, sinkValid, workerPool, downloadSem, uploadSem,
                   processingLimiter, tasks, drains, ticks, runs, uploadCalls, statusTrail, heldBack, scheduler>>

\* the entries config.BootstrapAccounts can hold: a channel, a sink account,
\* a token or none, is_active set or not
BootstrapEntries ==
    [YouTubeChannelID : ChannelIds, TikTokAccountID : SinkAccountIds,
     TikTokAccessToken : {"", "T0"}, IsActive : {"nil", "true", "false"}]

\* a bootstrap that takes the oldest job of the store for every entry
ExistingOldest(as, acc) == IF as # <<>> THEN 1 ELSE 0
\* the job of the store an entry stands for: the one with its sink account,
\* else the one with its channel; 0 when there is none
ExistingFor(as, acc) ==
    LET byTikTok == GetByTikTokAccountID(as, acc.TikTokAccountID)
    IN  IF byTikTok # 0 THEN byTikTok ELSE GetByYouTubeChannelID(as, acc.YouTubeChannelID)

\* a bootstrap that writes the token of the entry whenever it differs
ConfigTokenAlways(acc, existing) ==
    IF acc.TikTokAccessToken # "" /\ acc.TikTokAccessToken # existing.tiktok_access_token
    THEN acc.TikTokAccessToken ELSE ""
\* the token bootstrapAccounts passes to UpdateAccountMapping ("" for none):
\* the one of the entry when the job has none
ConfigTokenToStore(acc, existing) ==
    IF /\ acc.TikTokAccessToken # ""
       /\ acc.TikTokAccessToken # existing.tiktok_access_token
       /\ existing.tiktok_access_token = ""
    THEN acc.TikTokAccessToken ELSE ""

\* bootstrapAccounts, one entry of the configuration: a job that is not in
\* the store is created (with the placeholder when the entry has no token)
\* and deactivated when the entry says so; a job that is there is updated
\* where the entry differs
BootstrapOutcome(as, acc) ==
    LET i == ExistingFor(as, acc)
    IN  IF i = 0
        THEN LET created == CreateOutcome(as, acc.YouTubeChannelID, acc.TikTokAccountID,
                                IF acc.TikTokAccessToken = "" THEN PlaceholderToken
                                ELSE acc.TikTokAccessToken)
             IN  IF created.ok /\ acc.IsActive = "false"
                 THEN [ok |-> TRUE, rows |-> SetActiveOutcome(created.rows, created.id, FALSE).rows,
                       issued |-> 1]
                 ELSE [ok |-> created.ok, rows |-> created.rows,
                       issued |-> IF created.id = "" THEN 0 ELSE 1]
        ELSE LET existing == as[i]
                 youtubeID == IF acc.YouTubeChannelID # existing.youtube_channel_id
                              THEN acc.YouTubeChannelID ELSE ""
                 tiktokID == IF acc.TikTokAccountID # existing.tiktok_account_id
                             THEN acc.TikTokAccountID ELSE ""
                 token == ConfigTokenToStore(acc, existing)
                 activePtr == IF acc.IsActive # "nil" /\ existing.is_active # (acc.IsActive = "true")
                              THEN acc.IsActive ELSE "nil"
                 needsUpdate == youtubeID # "" \/ tiktokID # "" \/ token # "" \/ activePtr # "nil"
             IN  IF needsUpdate
                 THEN LET out == UpdateOutcome(as, existing.id, youtubeID, tiktokID, token, activePtr)
                      IN  [ok |-> out.ok, rows |-> out.rows, issued |-> 0]
                 ELSE [ok |-> TRUE, rows |-> as, issued |-> 0]

BootstrapAccount(acc) ==
    /\ admin.calls < MaxAdminCalls
    /\ LET out == BootstrapOutcome(accounts, acc)
       IN  /\ accounts' = out.rows
           /\ admin' = Called("bootstrap", out.ok, out.issued)
    /\ UNCHANGED <<now, cfg, env, videos, sinkValid, workerPool, downloadSem, uploadSem,
                   processingLimiter, tasks, drains, ticks, runs, uploadCalls, statusTrail, heldBack, scheduler>>

\* a call to the AccountManager, or the bootstrap of one configured entry
AdminStep ==
    \/ \E y \in ChannelIds, k \in SinkAccountIds, tok \in {"", "T0"} :
            CreateAccountMapping(y, k, tok)
    \/ \E id \in CallAccountIds, y \in ChannelIds \cup {""}, k \in SinkAccountIds \cup {""},
          tok \in {"", "T1"}, active \in {"nil", "true", "false"} :
            UpdateAccountMapping(id, y, k, tok, active)
    \/ \E id \in CallAccountIds : DeleteAccountMapping(id)
    \/ \E id \in CallAccountIds : ActivateAccountMapping(id)
    \/ \E id \in CallAccountIds : DeactivateAccountMapping(id)
    \/ \E id \in CallAccountIds, tok \in {"", "T1"}, ref \in {"", "R1"}, exp \in {0, 2} :
            UpdateAccountTokens(id, tok, ref, exp)
    \/ \E acc \in BootstrapEntries : BootstrapAccount(acc)

(***************************************************************************)
(* The source listing (youtube.Service).                                   *)
(***************************************************************************)
\* the sequences of at most n distinct elements of S
RECURSIVE DistinctSeqs(_, _)
DistinctSeqs(S, n) ==
    IF n = 0 \/ S = {} THEN {<<>>}
    ELSE {<<>>} \cup UNION {{<<x>> \o q : q \in DistinctSeqs(S \ {x}, n - 1)} : x \in S}

\* the video object getPlaylistVideos builds for one playlist item
SourceVideo(v) ==
    [NilVideo EXCEPT !.id = v, !.youtube_video_id = v, !.status = VideoStatusPending,
                     !.published_at = PublishedAt(v), !.created_at = now]

\* the videos of a channel that are published by now
Visible(channelID) ==
    {v \in env.items : ChannelOf(v) = channelID /\ PublishedAt(v) <= now}

\* what GetLatestVideos may return for a channel: recent videos of the
\* channel, in any order
SourceListings(channelID) ==
    {[i \in DOMAIN q |-> SourceVideo(q[i])] : q \in DistinctSeqs(Visible(channelID), env.maxResults)}

(***************************************************************************)
(* AccountMonitor: one MonitorAllAccounts invocation and its goroutines.   *)
(***************************************************************************)
\* the locals of one monitorAccount goroutine, and three history fields: the
\* instant and the stored ids when GetLatestVideos returned, and the ids whose
\* lookup or save failed
IdleRun ==
    [pc |-> "idle", account |-> NilAccount, bootstrapCutoff |-> ZeroTime, listing |-> <<>>,
     i |-> 1, newVideos |-> <<>>, persistedVideos |-> <<>>, storageErrors |-> FALSE, err |-> "",
     startedAt |-> ZeroTime, before |-> {}, failed |-> {}]

\* the youtube_video_id values of the rows of the table
StoredIds(vs) == {vs[i].youtube_video_id : i \in DOMAIN vs}

TickRuns(k) == {r \in RunIds : r[1] = k}

\* no sort: the new videos stay in the order of the listing
LeftAsListed(q) == {q}
\* the orders sort.Slice may leave: PublishedAt descending, ties either way
SortedNewestFirst(q) ==
    {p \in DistinctSeqs({q[i] : i \in DOMAIN q}, Len(q)) :
        /\ Len(p) = Len(q)
        /\ \A i, j \in DOMAIN p : i < j => p[i].published_at >= p[j].published_at}

\* Scheduler.monitorAccountsJob fires; MonitorAllAccounts reads the active
\* accounts and starts one monitorAccount goroutine for each
StartTick(k) ==
    /\ ~scheduler.stopped
    /\ k <= env.ticks
    /\ ticks[k].pc = "idle"
    /\ env.overlap \/ \A j \in TickIds : ticks[j].pc # "wait"
    /\ LET active == GetAllActive(accounts)
       IN  IF Len(active) = 0
           THEN /\ ticks' = [ticks EXCEPT ![k].pc = "done"]
                /\ UNCHANGED runs
           ELSE /\ ticks' = [ticks EXCEPT ![k].pc = "wait"]
                /\ runs' = [r \in RunIds |->
                      IF r[1] = k /\ \E i \in DOMAIN active : active[i].id = r[2]
                      THEN [IdleRun EXCEPT
                              !.pc = "fetch",
                              !.account = active[CHOOSE i \in DOMAIN active : active[i].id = r[2]]]
                      ELSE runs[r]]
    /\ UNCHANGED <<now, cfg, env, accounts, videos, sinkValid, workerPool, downloadSem,
                   uploadSem, processingLimiter, tasks, drains, uploadCalls, statusTrail, heldBack, admin, scheduler>>

\* what GetLatestVideos returns: an error, or a listing
ListingResults(channelID) ==
    (IF ("source" \in env.faults) THEN {[err |-> TRUE, videos |-> <<>>]} ELSE {})
        \cup {[err |-> FALSE, videos |-> q] : q \in SourceListings(channelID)}

\* monitorAccount lines 110-126: the bootstrap cutoff and GetLatestVideos
FetchLatest(r) ==
    /\ runs[r].pc = "fetch"
    /\ \E res \in ListingResults(runs[r].account.youtube_channel_id) :
        LET cutoff == IF runs[r].account.last_checked_at = ZeroTime
                      THEN now - BootstrapHours ELSE ZeroTime
        IN  runs' = [runs EXCEPT ![r] =
              IF res.err
              THEN [@ EXCEPT !.pc = "done", !.err = "failed to get latest videos"]
              ELSE [@ EXCEPT !.pc = IF Len(res.videos) = 0 THEN "finish" ELSE "lookup",
                             !.bootstrapCutoff = cutoff,
                             !.listing = res.videos,
                             !.startedAt = now,
                             !.before = StoredIds(videos)]]
    /\ UNCHANGED <<now, cfg, env, accounts, videos, sinkValid, workerPool, downloadSem,
                   uploadSem, processingLimiter, tasks, drains, ticks, uploadCalls, statusTrail, heldBack, admin, scheduler>>

\* monitorAccount lines 132-151: one turn of the filter loop; after the last
\* one the new videos are sorted (lines 162-166)
LookupVideo(r) ==
    /\ runs[r].pc = "lookup"
    /\ \E fail \in (IF ("store" \in env.faults) THEN BOOLEAN ELSE {FALSE}) :
        LET run == runs[r]
            video == run.listing[run.i]
            existing == GetByYouTubeID(videos, video.youtube_video_id)
            skip == \/ existing # 0
                    \/ (run.bootstrapCutoff # ZeroTime /\ video.published_at < run.bootstrapCutoff)
            found == IF fail \/ skip THEN run.newVideos
                     ELSE Append(run.newVideos, [video EXCEPT !.account_id = run.account.id])
            last == run.i = Len(run.listing)
        IN  \E sorted \in (IF last THEN SortedNewestFirst(found) ELSE {found}) :
                /\ runs' = [runs EXCEPT ![r] =
                    [@ EXCEPT !.i = IF last THEN 1 ELSE run.i + 1,
                              !.newVideos = sorted,
                              !.storageErrors = run.storageErrors \/ fail,
                              !.failed = IF fail THEN @ \cup {video.youtube_video_id} ELSE @,
                              !.pc = IF ~last THEN "lookup"
                                     ELSE IF Len(sorted) = 0 THEN "finish" ELSE "save"]]
                /\ heldBack' = IF ~fail /\ existing = 0 /\ skip
                               THEN heldBack \cup {video.youtube_video_id} ELSE heldBack
    /\ UNCHANGED <<now, cfg, env, accounts, videos, sinkValid, workerPool, downloadSem,
                   uploadSem, processingLimiter, tasks, drains, ticks, uploadCalls, statusTrail,
                   admin, scheduler>>

\* monitorAccount lines 167-174: one turn of the save loop
SaveNewVideo(r) ==
    /\ runs[r].pc = "save"
    /\ \E fail \in (IF ("store" \in env.faults) THEN BOOLEAN ELSE {FALSE}) :
        LET run == runs[r]
            video == run.newVideos[run.i]
            out == SaveVideoOutcome(videos, video)
            ok == ~fail /\ out.ok
            last == run.i = Len(run.newVideos)
        IN  /\ videos' = IF ok THEN out.rows ELSE videos
            /\ runs' = [runs EXCEPT ![r] =
                 [@ EXCEPT !.i = IF last THEN 1 ELSE run.i + 1,
                           !.persistedVideos = IF ok THEN Append(@, SaveDefaults(videos, video)) ELSE @,
                           !.storageErrors = run.storageErrors \/ ~ok,
                           !.failed = IF ok THEN @ ELSE @ \cup {video.youtube_video_id},
                           !.pc = IF last THEN "finish" ELSE "save"]]
    /\ UNCHANGED <<now, cfg, env, accounts, sinkValid, workerPool, downloadSem,
                   uploadSem, processingLimiter, tasks, drains, ticks, uploadCalls, statusTrail, heldBack, admin, scheduler>>

\* the immediate-processing goroutines launchImmediateProcessing starts
Launched(k, persisted) ==
    [t \in TaskIds |->
        IF ~IsDrainWorker(t) /\ t[2] = k /\ \E i \in DOMAIN persisted : persisted[i].id = t[3]
        THEN [IdleTask EXCEPT
                !.pc = "acquire",
                !.video = persisted[CHOOSE i \in DOMAIN persisted : persisted[i].id = t[3]]]
        ELSE tasks[t]]

\* no check of storageErrors: the run always goes on to UpdateLastChecked
NeverAborts(run) == FALSE
\* monitorAccount lines 182-184: the run returns an error before
\* UpdateLastChecked when a lookup or a save failed
AbortsBeforeUpdate(run) == run.storageErrors

\* monitorAccount lines 176-207: return on a storage error, else
\* UpdateLastChecked and the launch of immediate processing
FinishRun(r) ==
    /\ runs[r].pc = "finish"
    /\ \E fail \in (IF ("store" \in env.faults) THEN BOOLEAN ELSE {FALSE}) :
        LET run == runs[r]
            lastVideoID == IF Len(run.persistedVideos) > 0
                           THEN run.persistedVideos[1].youtube_video_id
                           ELSE run.account.last_video_id
        IN  IF AbortsBeforeUpdate(run)
            THEN /\ runs' = [runs EXCEPT ![r].pc = "done", ![r].err = "storage errors occurred"]
                 /\ UNCHANGED <<accounts, tasks>>
            ELSE IF fail
            THEN /\ runs' = [runs EXCEPT ![r].pc = "done", ![r].err = "failed to update last checked"]
                 /\ UNCHANGED <<accounts, tasks>>
            ELSE /\ runs' = [runs EXCEPT ![r].pc = "done"]
                 /\ accounts' = UpdateLastChecked(accounts, run.account.id, lastVideoID, now)
                 /\ tasks' = Launched(r[1], run.persistedVideos)
    /\ UNCHANGED <<now, cfg, env, videos, sinkValid, workerPool, downloadSem,
                   uploadSem, processingLimiter, drains, ticks, uploadCalls, statusTrail, heldBack, admin, scheduler>>

\* a tick that stops waiting at the first error a goroutine reports
FirstErrorEnds(k) ==
    \/ \A r \in TickRuns(k) : runs[r].pc \in {"idle", "done"}
    \/ \E r \in TickRuns(k) : runs[r].pc = "done" /\ runs[r].err # ""
\* wg.Wait() of MonitorAllAccounts can return: every monitorAccount goroutine
\* of the tick has returned
WaitGroupDone(k) == \A r \in TickRuns(k) : runs[r].pc \in {"idle", "done"}

\* MonitorAllAccounts: wg.Wait() returns, the errors are collected and the
\* goroutines are gone
TickCollect(k) ==
    /\ ticks[k].pc = "wait"
    /\ WaitGroupDone(k)
    /\ ticks' = [ticks EXCEPT
          ![k].pc = "done",
          ![k].result = IF \E r \in TickRuns(k) : runs[r].err # "" THEN "error" ELSE "ok"]
    /\ runs' = [r \in RunIds |-> IF r \in TickRuns(k) THEN IdleRun ELSE runs[r]]
    /\ UNCHANGED <<now, cfg, env, accounts, videos, sinkValid, workerPool, downloadSem,
                   uploadSem, processingLimiter, tasks, drains, uploadCalls, statusTrail, heldBack, admin, scheduler>>

(***************************************************************************)
(* The world outside.                                                      *)
(***************************************************************************)
\* time passes
AdvanceClock ==
    /\ now < StartTime + env.clockSteps * ClockStep
    /\ now' = now + ClockStep
    /\ UNCHANGED <<cfg, env, accounts, videos, sinkValid, workerPool, downloadSem, uploadSem,
                   processingLimiter, tasks, drains, ticks, runs, uploadCalls, statusTrail, heldBack, admin, scheduler>>

(***************************************************************************)
(* Initial states and specifications.                                      *)
(***************************************************************************)
\* the job of the configuration file: {src="UCabc", sink="ttk123", token="T0", active=true}
BootAccount ==
    [NilAccount EXCEPT !.id = "acc1", !.youtube_channel_id = "UCabc",
                       !.tiktok_account_id = "ttk123", !.tiktok_access_token = "T0",
                       !.is_active = TRUE]

\* the AccountManager when n account ids have been issued and no call is made yet
AfterBootstrap(n) == [issued |-> n, calls |-> 0, last |-> [op |-> "", ok |-> TRUE]]

\* runtime.NumCPU() of the machine, and the worker pool size computed from
\* it when the file gives none: four per CPU, not under 10 and not over 100
NumCPU == 2
WorkersPerCPU == 4
MinWorkerPoolSize == 10
MaxWorkerPoolSize == 100
AutoWorkerPoolSize ==
    IF NumCPU * WorkersPerCPU < MinWorkerPoolSize THEN MinWorkerPoolSize
    ELSE IF NumCPU * WorkersPerCPU > MaxWorkerPoolSize THEN MaxWorkerPoolSize
    ELSE NumCPU * WorkersPerCPU

\* the three keys of the configuration file that size the channels; a key
\* the file omits is read as 0
ConfigFile(downloadMax, uploadMax, workerPoolSize) ==
    [DownloadMaxConcurrent |-> downloadMax, UploadMaxConcurrent |-> uploadMax,
     PerformanceWorkerPoolSize |-> workerPoolSize]

\* Manager.Load: the values of the file are copied; worker_pool_size gets a
\* computed value when it is 0, the two max_concurrent values are left as read
Load(cfgFile) ==
    [TikTokEnableWeb |-> FALSE, TikTokAPIKey |-> "awclientkey1",
     TikTokRedirectURI |-> "http://localhost:8080/api/tiktok/callback",
     MaxConcurrentDownloads |-> cfgFile.DownloadMaxConcurrent,
     MaxConcurrentUploads |-> cfgFile.UploadMaxConcurrent,
     WorkerPoolSize |-> IF cfgFile.PerformanceWorkerPoolSize = 0
                        THEN AutoWorkerPoolSize
                        ELSE cfgFile.PerformanceWorkerPoolSize]

\* the configuration main loads: API upload, the application's client key,
\* the default redirect URI and the three sizes given in the file
ProgramConfig == Load(ConfigFile(MaxConcurrentDownloads, MaxConcurrentUploads, WorkerPoolSize))

\* NewScheduler: a root context that is not cancelled, Stop not called
SchedulerRunning == [cancelled |-> FALSE, stopped |-> FALSE]

\* the components main builds: empty channels, no goroutine running
NewComponents ==
    /\ now = StartTime
    /\ scheduler = SchedulerRunning
    /\ sinkValid = {"T0"}
    /\ workerPool = 0
    /\ downloadSem = 0
    /\ uploadSem = 0
    /\ processingLimiter = 0
    /\ drains = [d \in DrainIds |-> IdleDrain]
    /\ runs = [r \in RunIds |-> IdleRun]
    /\ uploadCalls = [v \in VideoIds |-> 0]
    /\ statusTrail = [v \in VideoIds |-> 0]
    /\ heldBack = {}

InitComponents ==
    /\ cfg = ProgramConfig
    /\ NewComponents

\* the state after main has built the components and bootstrapAccounts has run
InitProgram ==
    /\ InitComponents
    /\ accounts = <<BootAccount>>
    /\ admin = AfterBootstrap(1)
    /\ videos = <<>>
    /\ tasks = [t \in TaskIds |-> IdleTask]
    /\ ticks = [k \in TickIds |-> [pc |-> "idle", result |-> ""]]

\* the pipeline scenario: a discovery tick, its immediate tasks and a drain
\* run side by side on a channel with two recent videos; the extractor may
\* fail, the sink answers a publish with or without a video id
Init ==
    /\ InitProgram
    /\ env = [items |-> {"v1", "v3"}, maxResults |-> MaxResults, ticks |-> PipelineTicks,
              drains |-> PipelineDrains, clockSteps |-> 0, overlap |-> TRUE,
              sinkVideoIds |-> {"", "tt1"}, faults |-> {"extractor"}]

\* the steps of a processing goroutine whose account token verifies; the
\* refresh branch (RefreshToken, SaveRefreshedAccount) is entered only from a
\* token the sink rejects
TaskStep(t) ==
    \/ AcquireWorkerSlot(t)
    \/ AcquireProcessingSlot(t)
    \/ MarkDownloading(t)
    \/ AcquireDownloadSem(t)
    \/ DownloadReturns(t)
    \/ PersistFilePath(t)
    \/ MarkDownloaded(t)
    \/ LoadAccount(t)
    \/ VerifyToken(t)
    \/ MarkUploading(t)
    \/ AcquireUploadSem(t)
    \/ UploadReturns(t)
    \/ PersistTikTokID(t)
    \/ MarkCompleted(t)
    \/ MarkFailed(t)

DrainStep(d) ==
    \/ StartDrain(d)
    \/ DrainListPending(d)
    \/ DrainCollect(d)

TickStep(k) ==
    \/ StartTick(k)
    \/ TickCollect(k)

RunStep(r) ==
    \/ FetchLatest(r)
    \/ LookupVideo(r)
    \/ SaveNewVideo(r)
    \/ FinishRun(r)

Next ==
    \/ \E t \in TaskIds : TaskStep(t)
    \/ \E d \in DrainIds : DrainStep(d)
    \/ \E k \in TickIds : TickStep(k)
    \/ \E r \in RunIds : RunStep(r)

Spec == Init /\ [][Next]_vars

\* the row a discovery run stores for video v of the configured job
DiscoveredRow(v) == [SourceVideo(v) EXCEPT !.account_id = BootAccount.id]

\* the drain scenario: the first discovery tick is over, it has stored v1,
\* written the account and launched the immediate task of v1; the drains of
\* the scheduler start beside that task
InitDrains ==
    /\ InitComponents
    /\ accounts = <<[BootAccount EXCEPT !.last_checked_at = StartTime, !.last_video_id = "v1"]>>
    /\ admin = AfterBootstrap(1)
    /\ videos = <<DiscoveredRow("v1")>>
    /\ tasks = [t \in TaskIds |->
                  IF t = <<"tick", 1, "v1">>
                  THEN [IdleTask EXCEPT !.pc = "acquire", !.video = DiscoveredRow("v1")]
                  ELSE IdleTask]
    /\ ticks = [k \in TickIds |->
                  IF k = 1 THEN [pc |-> "done", result |-> "ok"] ELSE [pc |-> "idle", result |-> ""]]
    /\ env = [items |-> {"v1"}, maxResults |-> MaxResults, ticks |-> 0,
              drains |-> PipelineDrains, clockSteps |-> 0, overlap |-> TRUE,
              sinkVideoIds |-> {"tt1"}, faults |-> {"extractor"}]

NextDrains ==
    \/ \E t \in TaskIds : TaskStep(t)
    \/ \E d \in DrainIds : DrainStep(d)

SpecDrains == InitDrains /\ [][NextDrains]_vars

\* the concurrent-discovery scenario: overlapping ticks of one channel on one
\* store; the goroutines they launch are left waiting
InitDiscovery ==
    /\ InitProgram
    /\ env = [items |-> {"v1", "v2"}, maxResults |-> MaxResults, ticks |-> DiscoveryTicks,
              drains |-> 0, clockSteps |-> 0, overlap |-> TRUE,
              sinkVideoIds |-> {"tt1"}, faults |-> {}]

NextDiscovery ==
    \/ \E k \in TickIds : TickStep(k)
    \/ \E r \in RunIds : RunStep(r)

SpecDiscovery == InitDiscovery /\ [][NextDiscovery]_vars

\* the bootstrap scenario: one tick after the other on a store whose calls
\* may fail, for a channel with videos published 1h, 36h and 12h ago
InitBootstrap ==
    /\ InitProgram
    /\ env = [items |-> {"v1", "v2", "v3"}, maxResults |-> MaxResults, ticks |-> BootstrapTicks,
              drains |-> 0, clockSteps |-> 0, overlap |-> FALSE,
              sinkVideoIds |-> {"tt1"}, faults |-> {"store"}]

SpecBootstrap == InitBootstrap /\ [][NextDiscovery]_vars

\* the second-tick scenario: one tick after the other while time passes and
\* a fourth video appears on the channel
InitSecondTick ==
    /\ InitProgram
    /\ env = [items |-> VideoIds, maxResults |-> MaxResults, ticks |-> BootstrapTicks,
              drains |-> 0, clockSteps |-> MaxClockSteps, overlap |-> FALSE,
              sinkVideoIds |-> {"tt1"}, faults |-> {}]

NextSecondTick ==
    \/ \E k \in TickIds : TickStep(k)
    \/ \E r \in RunIds : RunStep(r)
    \/ AdvanceClock

SpecSecondTick == InitSecondTick /\ [][NextSecondTick]_vars

\* the access token and refresh token a stored job can hold: a token the sink
\* accepts, an expired one with and without a refresh token, none, and the
\* placeholder of the bootstrap
StoredCredentials ==
    {[access |-> "T0", refresh |-> ""],
     [access |-> "Told", refresh |-> "R0"],
     [access |-> "Told", refresh |-> ""],
     [access |-> "", refresh |-> ""],
     [access |-> PlaceholderToken, refresh |-> ""]}

\* a second job, with a token of its own that the sink accepts
OtherAccount ==
    [NilAccount EXCEPT !.id = "acc2", !.youtube_channel_id = "UCdef",
                       !.tiktok_account_id = "ttk456", !.tiktok_access_token = "T2",
                       !.last_checked_at = StartTime, !.last_video_id = "v3",
                       !.is_active = TRUE]

\* the credentials scenario: two jobs with one pending video each, the first
\* job in any of the credential states; a drain processes both videos while
\* the sink may fail a call
InitCredentials ==
    /\ now = StartTime
    /\ scheduler = SchedulerRunning
    /\ cfg = ProgramConfig
    /\ sinkValid = {"T0", "T2"}
    /\ workerPool = 0
    /\ downloadSem = 0
    /\ uploadSem = 0
    /\ processingLimiter = 0
    /\ drains = [d \in DrainIds |-> IdleDrain]
    /\ runs = [r \in RunIds |-> IdleRun]
    /\ uploadCalls = [v \in VideoIds |-> 0]
    /\ statusTrail = [v \in VideoIds |-> 0]
    /\ heldBack = {}
    /\ admin = AfterBootstrap(2)
    /\ \E c \in StoredCredentials :
          accounts = <<[BootAccount EXCEPT !.tiktok_access_token = c.access,
                                           !.tiktok_refresh_token = c.refresh,
                                           !.last_checked_at = StartTime,
                                           !.last_video_id = "v1"],
                       OtherAccount>>
    /\ videos = <<DiscoveredRow("v1"), [DiscoveredRow("v3") EXCEPT !.account_id = OtherAccount.id]>>
    /\ tasks = [t \in TaskIds |-> IdleTask]
    /\ ticks = [k \in TickIds |-> [pc |-> "idle", result |-> ""]]
    /\ env = [items |-> {"v1", "v3"}, maxResults |-> MaxResults, ticks |-> 0,
              drains |-> PipelineDrains, clockSteps |-> 0, overlap |-> TRUE,
              sinkVideoIds |-> {"tt1"}, faults |-> {"sink"}]

\* the steps of a drain worker, the refresh branch included
WorkerStep(t) ==
    \/ AcquireWorkerSlot(t)
    \/ MarkDownloading(t)
    \/ AcquireDownloadSem(t)
    \/ DownloadReturns(t)
    \/ PersistFilePath(t)
    \/ MarkDownloaded(t)
    \/ LoadAccount(t)
    \/ VerifyToken(t)
    \/ RefreshToken(t)
    \/ SaveRefreshedAccount(t)
    \/ MarkUploading(t)
    \/ AcquireUploadSem(t)
    \/ UploadReturns(t)
    \/ PersistTikTokID(t)
    \/ MarkCompleted(t)
    \/ MarkFailed(t)

NextCredentials ==
    \/ \E t \in TaskIds : WorkerStep(t)
    \/ \E d \in DrainIds : DrainStep(d)

SpecCredentials == InitCredentials /\ [][NextCredentials]_vars

\* the statuses the video of a stopped process can be left in by a process
\* that was downloading it: not yet touched, or marked downloading
StoppedStatuses == {VideoStatusPending, VideoStatusDownloading}

\* the restart scenario: the process starts on the store a stopped process
\* left: three videos of the job, the oldest one pending or downloading, the
\* others pending; the cron entry fires the drain again and again, the
\* extractor may fail
InitRestart ==
    /\ InitComponents
    /\ accounts = <<[BootAccount EXCEPT !.last_checked_at = StartTime, !.last_video_id = "v1"]>>
    /\ admin = AfterBootstrap(1)
    /\ \E status \in StoppedStatuses :
          videos = <<[DiscoveredRow("v2") EXCEPT !.status = status],
                     DiscoveredRow("v3"), DiscoveredRow("v1")>>
    /\ tasks = [t \in TaskIds |-> IdleTask]
    /\ ticks = [k \in TickIds |-> [pc |-> "idle", result |-> ""]]
    /\ env = [items |-> {"v1", "v2", "v3"}, maxResults |-> MaxResults, ticks |-> 0,
              drains |-> PipelineDrains, clockSteps |-> 0, overlap |-> TRUE,
              sinkVideoIds |-> {"tt1"}, faults |-> {"extractor"}]

\* the steps of processVideo for a job whose account token verifies
ProcessVideoStep(t) ==
    \/ MarkDownloading(t)
    \/ AcquireDownloadSem(t)
    \/ DownloadReturns(t)
    \/ PersistFilePath(t)
    \/ MarkDownloaded(t)
    \/ LoadAccount(t)
    \/ VerifyToken(t)
    \/ MarkUploading(t)
    \/ AcquireUploadSem(t)
    \/ UploadReturns(t)
    \/ PersistTikTokID(t)
    \/ MarkCompleted(t)
    \/ MarkFailed(t)

NextRestart ==
    \/ \E t \in TaskIds : AcquireWorkerSlot(t) \/ ProcessVideoStep(t)
    \/ \E d \in DrainIds : DrainStep(d) \/ DrainReturns(d)

\* the goroutines run and the cron entry keeps firing
SpecRestart == InitRestart /\ [][NextRestart]_vars /\ WF_vars(NextRestart)

\* the race scenario: overlapping discovery ticks of a channel with one
\* recent video, and the immediate processing they launch
InitRace ==
    /\ InitProgram
    /\ env = [items |-> {"v1"}, maxResults |-> MaxResults, ticks |-> DiscoveryTicks,
              drains |-> 0, clockSteps |-> 0, overlap |-> TRUE,
              sinkVideoIds |-> {"tt1"}, faults |-> {"extractor"}]

NextRace ==
    \/ \E k \in TickIds : TickStep(k)
    \/ \E r \in RunIds : RunStep(r)
    \/ \E t \in TaskIds : AcquireProcessingSlot(t) \/ ProcessVideoStep(t)

SpecRace == InitRace /\ [][NextRace]_vars

\* the delete scenario: the credentials scenario with an operator who
\* deletes jobs while the drain is at work
NextDelete ==
    \/ NextCredentials
    \/ \E id \in CallAccountIds : DeleteAccountMapping(id)

SpecDelete == InitCredentials /\ [][NextDelete]_vars

\* the accounts scenario: a new database; the configured entries are
\* bootstrapped and the AccountManager is called, in any order
InitAccounts ==
    /\ InitComponents
    /\ accounts = <<>>
    /\ admin = AfterBootstrap(0)
    /\ videos = <<>>
    /\ tasks = [t \in TaskIds |-> IdleTask]
    /\ ticks = [k \in TickIds |-> [pc |-> "idle", result |-> ""]]
    /\ env = [items |-> {}, maxResults |-> MaxResults, ticks |-> 0, drains |-> 0,
              clockSteps |-> 0, overlap |-> FALSE, sinkVideoIds |-> {"tt1"}, faults |-> {}]

SpecAccounts == InitAccounts /\ [][AdminStep]_vars

(***************************************************************************)
(* Properties of the pipeline (specifications Spec and SpecDrains).        *)
(***************************************************************************)
\* the goroutines that are inside processVideo
InProcessVideo == {t \in TaskIds : tasks[t].pc \notin {"idle", "acquire", "done"}}

\* the goroutines inside processVideo with video v
Carrying(v) == {t \in InProcessVideo : tasks[t].video.youtube_video_id = v}

\* C1: no work is duplicated: at any time at most one goroutine (drain worker
\* or immediate task) is carrying a video through download and upload, and
\* the sink's upload is called at most once per video.
C1_NoDuplicatedWork ==
    \A v \in VideoIds : Cardinality(Carrying(v)) <= 1 /\ uploadCalls[v] <= 1

\* C2: every row whose status is completed has a non-empty tiktok_video_id,
\* and its status went through downloaded before uploading, whatever the sink
\* answers to an upload it does not report as an error.
C2_CompletedHasSinkId ==
    \A i \in DOMAIN videos :
        videos[i].status = VideoStatusCompleted
            => videos[i].tiktok_video_id # "" /\ statusTrail[videos[i].id] = 2

\* the place of a status on the success path, -1 for a status off it
StatusRank(status) ==
    CASE status = VideoStatusPending     -> 0
      [] status = VideoStatusDownloading -> 1
      [] status = VideoStatusDownloaded  -> 2
      [] status = VideoStatusUploading   -> 3
      [] status = VideoStatusCompleted   -> 4
      [] OTHER                           -> -1

\* C3: of two successive reads of a video by its youtube_video_id, the second
\* never sees a status earlier on the success path than the first: no step
\* takes a row back along pending, downloading, downloaded, uploading, completed.
C3_StatusNeverRegresses ==
    [][\A i \in DOMAIN videos : \A j \in DOMAIN videos' :
          (/\ videos'[j].youtube_video_id = videos[i].youtube_video_id
           /\ StatusRank(videos[i].status) >= 0
           /\ StatusRank(videos'[j].status) >= 0)
              => StatusRank(videos'[j].status) >= StatusRank(videos[i].status)]_vars

\* the download and upload calls in flight
InFlightDownloads == {t \in TaskIds : tasks[t].pc = "downloading"}
InFlightUploads == {t \in TaskIds : tasks[t].pc = "uploading"}

\* C5: the extractor calls in flight never exceed MaxConcurrentDownloads and
\* the sink upload calls in flight never exceed MaxConcurrentUploads, drain
\* workers and immediate tasks counted together.
C5_StageLimits ==
    /\ Cardinality(InFlightDownloads) <= MaxConcurrentDownloads
    /\ Cardinality(InFlightUploads) <= MaxConcurrentUploads

\* C5 happens: with the download semaphore full, a drain worker and an
\* immediate task are at the download stage, one calling the extractor and
\* the other held back.
C5_Witness ==
    \E t, u \in TaskIds :
        /\ IsDrainWorker(t) # IsDrainWorker(u)
        /\ tasks[t].pc = "downloading"
        /\ tasks[u].pc = "waitDownload"
        /\ Cardinality(InFlightDownloads) = MaxConcurrentDownloads

ListingIds(run) == {run.listing[i].youtube_video_id : i \in DOMAIN run.listing}

\* the ids of the videos a run saved
PersistedIds(run) == {run.persistedVideos[i].youtube_video_id : i \in DOMAIN run.persistedVideos}

\* a run is the first discovery of its account: last_checked_at was unset
FirstDiscovery(run) == run.account.last_checked_at = ZeroTime

\* video v is not held back by the bootstrap window of the run
PassesBootstrap(run, v) ==
    ~FirstDiscovery(run) \/ PublishedAt(v) >= run.startedAt - BootstrapHours

\* every tick of the scenario has started and all its runs have returned
AllRunsReturned ==
    \A k \in TickIds : k <= env.ticks =>
        ticks[k].pc = "wait" /\ WaitGroupDone(k)

\* the ids some run got from the source and did not hold back
ReturnedNew ==
    {v \in VideoIds : \E r \in RunIds : v \in ListingIds(runs[r]) /\ PassesBootstrap(runs[r], v)}

\* C4: concurrent discovery runs of one channel on one store (empty at the
\* start) never store a youtube_video_id in two rows, and once they have all
\* returned the rows added are as many as the distinct ids the source
\* returned that passed the bootstrap window.
C4_NoDuplicateRows ==
    /\ \A i, j \in DOMAIN videos :
          i # j => videos[i].youtube_video_id # videos[j].youtube_video_id
    /\ AllRunsReturned => Len(videos) = Cardinality(ReturnedNew)

\* C4 happens: two runs that overlapped have both saved the same video.
C4_Witness ==
    /\ AllRunsReturned
    /\ \E r, q \in RunIds : r # q /\ PersistedIds(runs[r]) \cap PersistedIds(runs[q]) # {}

\* C9: a run that finds every returned video in the store adds no row,
\* changes no row, and changes of its account only last_checked_at:
\* last_video_id, the tokens and is_active keep the values they have in the
\* table when UpdateLastChecked writes.
C9_OnlyLastCheckedChanges ==
    [][\A r \in RunIds :
          (/\ runs[r].pc = "finish" /\ runs'[r].pc = "done"
           /\ ListingIds(runs[r]) # {}
           /\ ListingIds(runs[r]) \subseteq StoredIds(videos)
           /\ PersistedIds(runs[r]) = {})
              => /\ videos' = videos
                 /\ \A i \in DOMAIN accounts :
                       accounts'[i] = [accounts[i] EXCEPT
                                         !.last_checked_at = accounts'[i].last_checked_at]]_vars

\* C7: after a first discovery that held back a video older than the
\* bootstrap window, a later discovery that gets the same videos and a new one
\* inserts the new one only: a video that a first discovery held back is
\* never stored.
C7_HeldBackNeverStored == heldBack \cap StoredIds(videos) = {}

\* the videos a first discovery has to insert: returned, absent from the
\* store, published no earlier than 24 hours before the run
Expected(run) ==
    {v \in ListingIds(run) : v \notin run.before /\ PublishedAt(v) >= run.startedAt - BootstrapHours}

\* the one of a set of videos that was published last
Newest(S) == CHOOSE v \in S : \A w \in S : PublishedAt(w) <= PublishedAt(v)

\* C8: when a first discovery (last_checked_at unset) has returned without a
\* storage error, the rows added are exactly those of the returned videos
\* that were absent and published no earlier than 24 hours before, each
\* pending and with the account's id, and last_video_id is the latest
\* published of them, in whatever order the source listed them.
C8_FirstDiscoveryInserts ==
    \A r \in RunIds :
        (runs[r].pc = "done" /\ runs[r].err = "" /\ FirstDiscovery(runs[r])) =>
            LET run == runs[r]
                a == AccountIndexByID(accounts, run.account.id)
            IN  /\ StoredIds(videos) = run.before \cup Expected(run)
                /\ \A v \in Expected(run) :
                      LET i == GetByYouTubeID(videos, v)
                      IN  /\ videos[i].status = VideoStatusPending
                          /\ videos[i].account_id = run.account.id
                /\ Expected(run) # {} => accounts[a].last_video_id = Newest(Expected(run))

\* C8 happens: a first discovery got a listing that is not newest first,
\* held one video back and inserted two.
C8_Witness ==
    \E r \in RunIds :
        LET run == runs[r]
        IN  /\ run.pc = "done" /\ run.err = "" /\ FirstDiscovery(run)
            /\ Cardinality(Expected(run)) >= 2
            /\ \E v \in ListingIds(run) : ~PassesBootstrap(run, v)
            /\ Len(run.listing) >= 2
            /\ run.listing[1].published_at < run.listing[Len(run.listing)].published_at

\* C10: a storage error on the lookup or the save of one video does not stop
\* the scan: when the loops are over, every other returned video that is not
\* held back by the bootstrap window is in the store; and a run in which a
\* lookup or a save failed leaves the account row, last_checked_at and
\* last_video_id included, as it was.
C10_ErrorsSkipOnlyTheUpdate ==
    /\ [](\A r \in RunIds :
            runs[r].pc \in {"finish", "done"} =>
                \A v \in ListingIds(runs[r]) \ runs[r].failed :
                    PassesBootstrap(runs[r], v) => v \in StoredIds(videos))
    /\ [][\A r \in RunIds :
            (runs[r].pc = "finish" /\ runs'[r].pc = "done" /\ runs[r].failed # {})
                => accounts' = accounts]_vars

\* C10 happens: a run whose lookup or save of one video failed has saved a
\* video listed after that one, and has returned without touching the account.
C10_Witness ==
    \E r \in RunIds :
        LET run == runs[r]
        IN  /\ run.pc = "done" /\ run.err # ""
            /\ \E i, j \in DOMAIN run.listing :
                  /\ i < j
                  /\ run.listing[i].youtube_video_id \in run.failed
                  /\ run.listing[j].youtube_video_id \in PersistedIds(run)
            /\ accounts[AccountIndexByID(accounts, run.account.id)].last_checked_at = ZeroTime

(***************************************************************************)
(* Properties of the credentials of a job (specification SpecCredentials). *)
(***************************************************************************)
\* the goroutines whose refresh call has answered with new tokens
Refreshed == {t \in TaskIds : tasks[t].tokenResp # NilTokenResponse}

\* the step in which goroutine t has saved its refreshed account
SavedRefresh(t) == tasks[t].pc = "saveAccount" /\ tasks'[t].pc = "markUploading"

\* the stored row of the account goroutine t works for
StoredAccount(as, t) == as[AccountIndexByID(as, tasks[t].account.id)]

\* the step in which the refresh call of goroutine t answers with new tokens
RefreshAnswered(t) == tasks[t].pc = "refresh" /\ tasks'[t].pc = "saveAccount"

ExpectedAuthorizeURL ==
    "https://www.tiktok.com/v2/auth/authorize?client_key=" \o ProgramConfig.TikTokAPIKey
        \o "&scope=user.info.basic%2Cvideo.upload%2Cvideo.publish&response_type=code"
        \o "&redirect_uri=http%3A%2F%2Flocalhost%3A8080%2Fapi%2Ftiktok%2Fcallback&state=12345"

\* msg is one of the errors of uploadVideo that ask for a new authorization of
\* account accountID, with the authorize URL in it
CarriesAuthorizeURL(msg, accountID) ==
    \E pre \in {"TikTok access token not configured for account " \o accountID
                    \o ". Re-authorize via ",
                 "TikTok access token is invalid or expired for account " \o accountID
                    \o " and no refresh token available. Re-authorize via "} :
        \E post \in {" and exchange the returned code for a token",
                      " and exchange the returned code for a new token"} :
            msg = pre \o ExpectedAuthorizeURL \o post

\* the stored row of the video goroutine t works on
StoredVideo(vs, t) == vs[VideoIndexByID(vs, tasks[t].video.id)]

\* goroutine t holds an account whose access token the sink rejects and
\* which has no refresh token
RejectedWithoutRefresh(t) ==
    /\ tasks[t].account.tiktok_access_token \notin sinkValid \cup {""}
    /\ tasks[t].account.tiktok_refresh_token = ""

\* C12: when verify returns false and the job has no refresh token, the
\* goroutine goes on to write failed with an error message that carries the
\* authorize URL of the configured client key and redirect URI; from the
\* verify call to its return it makes no publish call, leaves the accounts
\* table as it is and changes no row but the one of its video.
C12_ReauthNeeded ==
    [][\A t \in TaskIds :
          /\ (/\ tasks[t].pc = "verify"
              /\ RejectedWithoutRefresh(t)
              /\ tasks'[t] # tasks[t]
              /\ tasks'[t].err # "failed to verify access token")
                => /\ tasks'[t].pc = "failing"
                   /\ CarriesAuthorizeURL(tasks'[t].err, tasks[t].account.id)
                   /\ UNCHANGED <<accounts, videos, uploadCalls>>
          /\ (/\ tasks[t].pc = "failing"
              /\ RejectedWithoutRefresh(t)
              /\ tasks[t].err # "failed to verify access token"
              /\ tasks'[t] # tasks[t])
                => /\ StoredVideo(videos', t).status = VideoStatusFailed
                   /\ CarriesAuthorizeURL(StoredVideo(videos', t).error_message, tasks[t].account.id)
                   /\ uploadCalls[tasks[t].video.youtube_video_id] = 0
                   /\ UNCHANGED <<accounts, uploadCalls>>
                   /\ \A i \in DOMAIN videos :
                         videos[i].id # tasks[t].video.id => videos'[i] = videos[i]]_vars

\* C12 happens: the video of the job with the rejected token is failed with
\* the authorize URL in its error message and was never published, the
\* tokens of the job are the ones it had, and the video of the other job is
\* completed.
C12_Witness ==
    /\ accounts[1].tiktok_access_token = "Told"
    /\ accounts[1].tiktok_refresh_token = ""
    /\ \E i, j \in DOMAIN videos :
        /\ videos[i].account_id = accounts[1].id
        /\ videos[i].status = VideoStatusFailed
        /\ CarriesAuthorizeURL(videos[i].error_message, accounts[1].id)
        /\ uploadCalls[videos[i].youtube_video_id] = 0
        /\ videos[j].account_id = OtherAccount.id
        /\ videos[j].status = VideoStatusCompleted

\* the stored jobs whose access token is empty or the placeholder
Unconfigured ==
    {accounts[i].id : i \in {j \in DOMAIN accounts :
        accounts[j].tiktok_access_token \in {"", PlaceholderToken}}}

\* C13: a video of a job whose access token is empty or the placeholder of
\* the bootstrap never gets to uploading, and when it is failed its error
\* message carries the authorize URL, whatever the verify call answers.
C13_UnconfiguredAsksReauth ==
    \A i \in DOMAIN videos :
        videos[i].account_id \in Unconfigured
            => /\ videos[i].status \notin {VideoStatusUploading, VideoStatusCompleted}
               /\ videos[i].status = VideoStatusFailed
                    => CarriesAuthorizeURL(videos[i].error_message, videos[i].account_id)

\* C14: when verify returns false, the job has a refresh token and the
\* refresh call fails, the error the goroutine goes on to record carries the
\* authorize URL, and the accounts table is left as it is.
C14_RefreshFailureAsksReauth ==
    [][\A t \in TaskIds :
          (tasks[t].pc = "refresh" /\ tasks'[t].pc = "failing")
              => /\ CarriesAuthorizeURL(tasks'[t].err, tasks[t].account.id)
                 /\ UNCHANGED <<accounts, uploadCalls>>]_vars
(***************************************************************************)
(* Properties of a drain on a store left by an earlier process             *)
(* (specification SpecRestart).                                            *)
(***************************************************************************)
\* the status of the stored row with primary key id
StatusOf(id) == videos[VideoIndexByID(videos, id)].status

\* C15: when a drain returns, no video that was pending when it started is
\* still pending: each one is completed or failed, the ones beyond the first
\* batch included, also when the download or the upload of a video failed.
C15_DrainLeavesNonePending ==
    \A d \in DrainIds :
        drains[d].pc = "done"
            => \A id \in drains[d].pendingAtStart :
                  StatusOf(id) \in {VideoStatusCompleted, VideoStatusFailed}

\* C17: a video that the stopped process left pending or downloading is
\* retried by a drain after the restart: it gets to completed or failed.
C17_StoppedItemsFinish ==
    \A id \in {"v1", "v2", "v3"} :
        (StatusOf(id) \in StoppedStatuses)
            ~> (StatusOf(id) \in {VideoStatusCompleted, VideoStatusFailed})

\* C16: a drain worker starts on a video (its first write, downloading) only
\* while the stored status of the video is pending: a video that is past
\* pending is never taken up again by a drain.
C16_DrainStartsOnlyPending ==
    [][\A t \in TaskIds :
          (IsDrainWorker(t) /\ tasks[t].pc = "begin" /\ tasks'[t].pc = "waitDownload")
              => StoredVideo(videos, t).status = VideoStatusPending]_vars
(***************************************************************************)
(* Properties of the accounts table (specification SpecAccounts).          *)
(***************************************************************************)
\* C18: whatever calls were made, no two stored jobs have the same
\* youtube_channel_id and no two have the same tiktok_account_id, so the
\* lookup by a job's channel and the lookup by its sink account both return
\* that job; a call that returns an error leaves the table as it was.
C18_SourceAndSinkUnique ==
    /\ [](\A i, j \in DOMAIN accounts :
            (\/ accounts[i].youtube_channel_id = accounts[j].youtube_channel_id
             \/ accounts[i].tiktok_account_id = accounts[j].tiktok_account_id) => i = j)
    /\ [](\A i \in DOMAIN accounts :
            /\ GetByYouTubeChannelID(accounts, accounts[i].youtube_channel_id) = i
            /\ GetByTikTokAccountID(accounts, accounts[i].tiktok_account_id) = i)
    /\ [][admin'.calls # admin.calls /\ ~admin'.last.ok => accounts' = accounts]_vars

\* C18 happens: two jobs are stored, and the last call, an update that
\* would have given one job the channel or the sink account of the other,
\* returned an error.
C18_Witness ==
    /\ Len(accounts) = 2
    /\ admin.last.op = "update"
    /\ ~admin.last.ok
    /\ \A id \in CallAccountIds : AccountIndexByID(accounts, id) # 0

(***************************************************************************)
(* Properties of a delete beside the pipeline (specification SpecDelete).  *)
(***************************************************************************)
\* the goroutines inside processVideo whose video belongs to a job that is
\* not in the store
Orphaned ==
    {t \in InProcessVideo : AccountIndexByID(accounts, tasks[t].video.account_id) = 0}

\* C19: once a job is deleted, a goroutine that is processing one of its
\* videos makes no publish call and brings back neither the job nor the row
\* of the video, and it returns an error.
C19_InFlightTaskStopsAfterDelete ==
    [][\A t \in Orphaned :
          tasks'[t] # tasks[t]
              => /\ tasks'[t].pc # "uploading"
                 /\ AccountIndexByID(accounts', tasks[t].video.account_id) = 0
                 /\ VideoIndexByID(videos', tasks[t].video.id) = 0
                 /\ tasks'[t].pc = "done" => tasks'[t].err # ""]_vars

(***************************************************************************)
(* Properties of Save beside processing (specification SpecRace).          *)
(***************************************************************************)
\* C20: a Save of a discovery run never takes the stored status of a video
\* backwards: a row that is downloading, downloaded, uploading or completed
\* has the same status after the Save, whatever ran beside the run.
C20_SaveKeepsLaterStatus ==
    [][\A r \in RunIds :
          (runs[r].pc = "save" /\ runs'[r] # runs[r])
              => \A i \in DOMAIN videos :
                    StatusRank(videos[i].status) >= 1
                        => \E j \in DOMAIN videos' :
                              /\ videos'[j].id = videos[i].id
                              /\ videos'[j].status = videos[i].status]_vars

(***************************************************************************)
(* The account repositories called directly (specifications               *)
(* SpecSqliteStore and SpecMemoryStore).                                   *)
(***************************************************************************)
\* the ids, besides none, the saved account objects carry
StoreAccountIds == {"", "acc1", "acc2"}

\* the account objects handed to Save
SaveInputs ==
    {[NilAccount EXCEPT !.id = id, !.youtube_channel_id = y, !.tiktok_account_id = k,
                        !.tiktok_access_token = "T0", !.is_active = TRUE] :
        id \in StoreAccountIds, y \in ChannelIds, k \in SinkAccountIds}

\* the objects a caller can hold: one it has built (no id yet), or one that
\* carries an id the repository has issued
CallerObjects ==
    {a \in SaveInputs : a.id = "" \/ \E n \in 1..admin.issued : a.id = AccountUuid(n)}

\* the object after Save has given it an id: the n-th uuid when it had none
WithID(account, n) == [account EXCEPT !.id = IF @ = "" THEN AccountUuid(n) ELSE @]

\* sqlite.AccountRepository.Save on the object account
SqliteSave(as, account, n) ==
    LET obj == WithID(account, n)
        out == SaveAccountOutcome(as, obj)
    IN  [ok |-> out.ok, rows |-> out.rows, account |-> obj]

\* memory.AccountRepository.Save on the object account: r.accounts[account.ID] = account
MemorySave(as, account, n) ==
    LET obj == WithID(account, n)
        i == AccountIndexByID(as, obj.id)
    IN  [ok |-> TRUE,
         rows |-> IF i # 0 THEN [as EXCEPT ![i] = obj] ELSE Append(as, obj),
         account |-> obj]

\* the repository before any call: arg is the object of the last call as it
\* was passed, obj the same object after the call
NoSaveYet == [issued |-> 0, calls |-> 0, last |-> [op |-> "", ok |-> TRUE],
              arg |-> NilAccount, obj |-> NilAccount]

\* one call of Save on the sqlite repository
SqliteSaveCall(account) ==
    /\ admin.calls < MaxAdminCalls
    /\ LET out == SqliteSave(accounts, account, admin.issued + 1)
       IN  /\ accounts' = out.rows
           /\ admin' = [issued |-> admin.issued + (IF account.id = "" THEN 1 ELSE 0),
                        calls |-> admin.calls + 1, last |-> [op |-> "save", ok |-> out.ok],
                        arg |-> account, obj |-> out.account]
    /\ UNCHANGED <<now, cfg, env, videos, sinkValid, workerPool, downloadSem, uploadSem,
                   processingLimiter, tasks, drains, ticks, runs, uploadCalls, statusTrail, heldBack, scheduler>>

\* one call of Save on the in-memory repository
MemorySaveCall(account) ==
    /\ admin.calls < MaxAdminCalls
    /\ LET out == MemorySave(accounts, account, admin.issued + 1)
       IN  /\ accounts' = out.rows
           /\ admin' = [issued |-> admin.issued + (IF account.id = "" THEN 1 ELSE 0),
                        calls |-> admin.calls + 1, last |-> [op |-> "save", ok |-> out.ok],
                        arg |-> account, obj |-> out.account]
    /\ UNCHANGED <<now, cfg, env, videos, sinkValid, workerPool, downloadSem, uploadSem,
                   processingLimiter, tasks, drains, ticks, runs, uploadCalls, statusTrail, heldBack, scheduler>>

\* a new, empty repository
InitStore ==
    /\ InitComponents
    /\ accounts = <<>>
    /\ admin = NoSaveYet
    /\ videos = <<>>
    /\ tasks = [t \in TaskIds |-> IdleTask]
    /\ ticks = [k \in TickIds |-> [pc |-> "idle", result |-> ""]]
    /\ env = [items |-> {}, maxResults |-> MaxResults, ticks |-> 0, drains |-> 0,
              clockSteps |-> 0, overlap |-> FALSE, sinkVideoIds |-> {"tt1"}, faults |-> {}]

NextSqliteStore == \E account \in CallerObjects : SqliteSaveCall(account)
SpecSqliteStore == InitStore /\ [][NextSqliteStore]_vars

NextMemoryStore == \E account \in CallerObjects : MemorySaveCall(account)
SpecMemoryStore == InitStore /\ [][NextMemoryStore]_vars

\* this step is a Save of the input of the Save before it: an object of the
\* same field values, or the very object the call before was made on
SavedAgain ==
    /\ admin.last.op = "save"
    /\ admin'.calls = admin.calls + 1
    /\ admin'.arg \in {admin.arg, admin.obj}

\* C21: a Save that repeats the Save before it with identical input leaves
\* the table of jobs as the first call left it (no second row, no field of a
\* row changed).
C21_SaveTwiceIsSaveOnce == [][SavedAgain => accounts' = accounts]_vars

(***************************************************************************)
(* bootstrapAccounts on a store that holds a job (specification            *)
(* SpecReconcile).                                                         *)
(***************************************************************************)
\* the tokens the stored job can have when main starts: none, one written by
\* an earlier configuration or the placeholder, without refresh token; one
\* obtained by the exchange of a code, with refresh token; none with a
\* refresh token, after a refresh that answered without access token
StoredTokens ==
    {[access |-> "", refresh |-> "", expires |-> ZeroTime],
     [access |-> "T0", refresh |-> "", expires |-> ZeroTime],
     [access |-> "T1", refresh |-> "", expires |-> ZeroTime],
     [access |-> PlaceholderToken, refresh |-> "", expires |-> ZeroTime],
     [access |-> "T1", refresh |-> "R0", expires |-> StartTime + BootstrapHours],
     [access |-> "", refresh |-> "R0", expires |-> StartTime + BootstrapHours]}

\* the store of an earlier run of the program: the job acc1, and the entries
\* of the configuration are bootstrapped in any order
InitReconcile ==
    /\ InitComponents
    /\ \E c \in StoredTokens :
          accounts = <<[BootAccount EXCEPT !.tiktok_access_token = c.access,
                                           !.tiktok_refresh_token = c.refresh,
                                           !.tiktok_token_expires_at = c.expires]>>
    /\ admin = AfterBootstrap(1)
    /\ videos = <<>>
    /\ tasks = [t \in TaskIds |-> IdleTask]
    /\ ticks = [k \in TickIds |-> [pc |-> "idle", result |-> ""]]
    /\ env = [items |-> {}, maxResults |-> MaxResults, ticks |-> 0, drains |-> 0,
              clockSteps |-> 0, overlap |-> FALSE, sinkVideoIds |-> {"tt1"}, faults |-> {}]

NextReconcile == \E acc \in BootstrapEntries : BootstrapAccount(acc)
SpecReconcile == InitReconcile /\ [][NextReconcile]_vars

\* this step is the bootstrap of entry acc
Bootstrapped(acc) ==
    /\ admin'.calls = admin.calls + 1
    /\ admin'.last.op = "bootstrap"
    /\ accounts' = BootstrapOutcome(accounts, acc).rows

\* the tokens of a job
TokensOf(account) ==
    <<account.tiktok_access_token, account.tiktok_refresh_token, account.tiktok_token_expires_at>>

BootstrapConfigs ==
    UNION {[1..n -> {acc \in BootstrapEntries : acc.IsActive # "true"}] :
              n \in 1..MaxBootstrapEntries}

\* the entry the loop of bootstrapAccounts is at, and the start it belongs to
EntryAt(calls) == cfg.BootstrapAccounts[(calls % Len(cfg.BootstrapAccounts)) + 1]
StartOf(calls) == (calls \div Len(cfg.BootstrapAccounts)) + 1

\* bootstrapAccounts, the body of its loop for the next entry of the
\* configuration; atStartEnd keeps the table as each start left it
BootstrapConfigured ==
    /\ StartOf(admin.calls) <= ProgramStarts
    /\ LET out == BootstrapOutcome(accounts, EntryAt(admin.calls))
       IN  /\ accounts' = out.rows
           /\ admin' = [issued |-> admin.issued + out.issued, calls |-> admin.calls + 1,
                        last |-> [op |-> "bootstrap", ok |-> out.ok],
                        atStartEnd |->
                            IF StartOf(admin.calls + 1) # StartOf(admin.calls)
                            THEN Append(admin.atStartEnd, out.rows)
                            ELSE admin.atStartEnd]
    /\ UNCHANGED <<now, cfg, env, videos, sinkValid, workerPool, downloadSem, uploadSem,
                   processingLimiter, tasks, drains, ticks, runs, uploadCalls, statusTrail, heldBack, scheduler>>

\* a new database or the one of an earlier version with the job acc1, and a
\* configuration with a list of entries
InitStarts ==
    /\ now = StartTime
    /\ scheduler = SchedulerRunning
    /\ \E entries \in BootstrapConfigs :
          cfg = [TikTokEnableWeb |-> FALSE, TikTokAPIKey |-> "awclientkey1",
                 TikTokRedirectURI |-> "http://localhost:8080/api/tiktok/callback",
                 BootstrapAccounts |-> entries]
    /\ sinkValid = {"T0"}
    /\ workerPool = 0
    /\ downloadSem = 0
    /\ uploadSem = 0
    /\ processingLimiter = 0
    /\ drains = [d \in DrainIds |-> IdleDrain]
    /\ runs = [r \in RunIds |-> IdleRun]
    /\ uploadCalls = [v \in VideoIds |-> 0]
    /\ statusTrail = [v \in VideoIds |-> 0]
    /\ heldBack = {}
    /\ \/ accounts = <<>> /\ admin = [issued |-> 0, calls |-> 0,
                                      last |-> [op |-> "", ok |-> TRUE], atStartEnd |-> <<>>]
       \/ accounts = <<[BootAccount EXCEPT !.tiktok_access_token = ""]>>
          /\ admin = [issued |-> 1, calls |-> 0, last |-> [op |-> "", ok |-> TRUE],
                      atStartEnd |-> <<>>]
    /\ videos = <<>>
    /\ tasks = [t \in TaskIds |-> IdleTask]
    /\ ticks = [k \in TickIds |-> [pc |-> "idle", result |-> ""]]
    /\ env = [items |-> {}, maxResults |-> MaxResults, ticks |-> 0, drains |-> 0,
              clockSteps |-> 0, overlap |-> FALSE, sinkVideoIds |-> {"tt1"}, faults |-> {}]

SpecStarts == InitStarts /\ [][BootstrapConfigured]_vars

\* some stored job has the sink account of the entry, or its channel
HasSinkOrSource(as, acc) ==
    \E i \in DOMAIN as :
        \/ as[i].tiktok_account_id = acc.TikTokAccountID
        \/ as[i].youtube_channel_id = acc.YouTubeChannelID

\* this step is the loop body of bootstrapAccounts for entry EntryAt(admin.calls)
BootstrapLoopStep == admin'.calls = admin.calls + 1

\* reconciliation of one entry: a job is created only when no stored job
\* has the sink account of the entry and none has its channel; otherwise the
\* number of jobs does not grow and only the matched job (by sink account
\* first, else by channel) can change
ReconciledStep ==
    BootstrapLoopStep =>
        LET acc == EntryAt(admin.calls)
        IN  /\ Len(accounts') > Len(accounts) => ~HasSinkOrSource(accounts, acc)
            /\ HasSinkOrSource(accounts, acc) =>
                  /\ Len(accounts') = Len(accounts)
                  /\ \A i \in DOMAIN accounts :
                        accounts'[i] # accounts[i] =>
                            /\ accounts'[i].id = accounts[i].id
                            /\ IF \E j \in DOMAIN accounts :
                                      accounts[j].tiktok_account_id = acc.TikTokAccountID
                               THEN accounts[i].tiktok_account_id = acc.TikTokAccountID
                               ELSE accounts[i].youtube_channel_id = acc.YouTubeChannelID

\* no two entries of the configuration name the same channel or the same sink account
DistinctEntries ==
    \A i, j \in DOMAIN cfg.BootstrapAccounts :
        i # j => /\ cfg.BootstrapAccounts[i].YouTubeChannelID # cfg.BootstrapAccounts[j].YouTubeChannelID
                 /\ cfg.BootstrapAccounts[i].TikTokAccountID # cfg.BootstrapAccounts[j].TikTokAccountID

InitShutdown ==
    /\ InitProgram
    /\ env = [items |-> {"v1"}, maxResults |-> MaxResults, ticks |-> PipelineTicks,
              drains |-> PipelineDrains, clockSteps |-> 0, overlap |-> TRUE,
              sinkVideoIds |-> {"tt1"}, faults |-> {"extractor"}]

NextShutdown ==
    \/ Next
    \/ Stop

SpecShutdown == InitShutdown /\ [][NextShutdown]_vars

\* a ProcessPendingVideos or MonitorAllAccounts invocation is running
JobsInFlight ==
    \/ \E d \in DrainIds : drains[d].pc \in {"loop", "wait"}
    \/ \E k \in TickIds : ticks[k].pc = "wait"

\* C24: once Stop has returned (no time has passed since it was called), no
\* discovery or drain invocation that was running when it was called is
\* still running.
C24_StopWaitsForJobs == scheduler.stopped => ~JobsInFlight

\* the external call a goroutine is in: the extractor, the sink publish, or none
InCall(pc) == pc \in {"downloading", "uploading"}

\* goroutine t enters an external call in this step; an extractor call made
\* with a context that is done ends at once and is not counted
StartsCall(t) ==
    /\ InCall(tasks'[t].pc)
    /\ tasks'[t].pc # tasks[t].pc
    /\ ~(tasks'[t].pc = "downloading" /\ ContextDone(t))

\* C25: once the root context is cancelled, every extractor call and every
\* publish call in flight ends with an error, and no goroutine (drain worker
\* or immediate task) starts a new extractor or publish call.
C25_CancelReachesEveryTask ==
    [][scheduler.cancelled =>
        \A t \in TaskIds :
            /\ (InCall(tasks[t].pc) /\ tasks'[t].pc # tasks[t].pc) => tasks'[t].pc = "failing"
            /\ ~StartsCall(t)]_vars

(***************************************************************************)
(* Pausing a job (specification SpecPause): the job of the configuration   *)
(* has been checked once and a new video is at the source; discovery ticks *)
(* and their immediate tasks run while the job is deactivated and          *)
(* activated again through the AccountManager.                             *)
(***************************************************************************)
\* the credentials of the job: a token the sink accepts, or one it rejects
\* beside a refresh token
PausedJobCredentials ==
    {[access |-> "T0", refresh |-> ""], [access |-> "Told", refresh |-> "R0"]}

InitPause ==
    /\ InitComponents
    /\ admin = AfterBootstrap(1)
    /\ \E c \in PausedJobCredentials :
          accounts = <<[BootAccount EXCEPT !.tiktok_access_token = c.access,
                                           !.tiktok_refresh_token = c.refresh,
                                           !.last_checked_at = StartTime,
                                           !.last_video_id = "v1"]>>
    /\ videos = <<>>
    /\ tasks = [t \in TaskIds |-> IdleTask]
    /\ ticks = [k \in TickIds |-> [pc |-> "idle", result |-> ""]]
    /\ env = [items |-> {"v1"}, maxResults |-> MaxResults, ticks |-> DiscoveryTicks,
              drains |-> 0, clockSteps |-> 0, overlap |-> FALSE,
              sinkVideoIds |-> {"tt1"}, faults |-> {}]

\* the steps of an immediate-processing goroutine, the refresh branch included
ImmediateStep(t) ==
    \/ AcquireProcessingSlot(t)
    \/ MarkDownloading(t)
    \/ AcquireDownloadSem(t)
    \/ DownloadReturns(t)
    \/ PersistFilePath(t)
    \/ MarkDownloaded(t)
    \/ LoadAccount(t)
    \/ VerifyToken(t)
    \/ RefreshToken(t)
    \/ SaveRefreshedAccount(t)
    \/ MarkUploading(t)
    \/ AcquireUploadSem(t)
    \/ UploadReturns(t)
    \/ PersistTikTokID(t)
    \/ MarkCompleted(t)
    \/ MarkFailed(t)

\* POST /api/accounts/{id}/activate and /deactivate of the job
SetActiveStep ==
    \/ ActivateAccountMapping(BootAccount.id)
    \/ DeactivateAccountMapping(BootAccount.id)

NextPause ==
    \/ \E t \in TaskIds : ImmediateStep(t)
    \/ \E k \in TickIds : TickStep(k)
    \/ \E r \in RunIds : RunStep(r)
    \/ SetActiveStep

SpecPause == InitPause /\ [][NextPause]_vars

\* the last call to the AccountManager deactivated the job, and no call has
\* activated it since
Paused == admin.last.op = "deactivate" /\ admin.last.ok

\* this step is a successful call of the AccountManager with operation op
ManagerCall(op) ==
    /\ admin'.calls = admin.calls + 1
    /\ admin'.last = [op |-> op, ok |-> TRUE]

\* row i of the table accounts differs from what it was in is_active at most
OnlyActiveFlagChanged(i, active) ==
    /\ Len(accounts') = Len(accounts)
    /\ accounts' = [accounts EXCEPT ![i].is_active = active]

\* a MonitorAllAccounts invocation starts in this step
TickStarts == \E k \in TickIds : ticks[k].pc = "idle" /\ ticks'[k].pc # "idle"

\* C26: a deactivation changes nothing but the active flag of the job
\* (tokens, last_checked_at, last_video_id and the videos are kept); a
\* discovery tick that starts while the job is paused starts no monitorAccount
\* goroutine for it, so it inserts no video and leaves last_checked_at; an
\* activation changes nothing but the active flag either.
C26_DeactivationPauses ==
    [][/\ ManagerCall("deactivate") =>
              /\ OnlyActiveFlagChanged(AccountIndexByID(accounts, BootAccount.id), FALSE)
              /\ videos' = videos
       /\ ManagerCall("activate") =>
              /\ OnlyActiveFlagChanged(AccountIndexByID(accounts, BootAccount.id), TRUE)
              /\ videos' = videos
       /\ (Paused /\ TickStarts) => runs' = runs]_vars

(***************************************************************************)
(* The admission channels (specification SpecResources): two jobs with a   *)
(* pending video each, the token of the first one rejected by the sink; a  *)
(* drain runs beside a discovery tick, which finds a new video and starts  *)
(* its immediate task; the extractor and the sink may fail.                *)
(***************************************************************************)
InitResources ==
    /\ now = StartTime
    /\ scheduler = SchedulerRunning
    /\ cfg = ProgramConfig
    /\ sinkValid = {"T0", "T2"}
    /\ workerPool = 0
    /\ downloadSem = 0
    /\ uploadSem = 0
    /\ processingLimiter = 0
    /\ drains = [d \in DrainIds |-> IdleDrain]
    /\ runs = [r \in RunIds |-> IdleRun]
    /\ uploadCalls = [v \in VideoIds |-> 0]
    /\ statusTrail = [v \in VideoIds |-> 0]
    /\ heldBack = {}
    /\ admin = AfterBootstrap(2)
    /\ accounts = <<[BootAccount EXCEPT !.tiktok_access_token = "Told",
                                        !.tiktok_refresh_token = "R0",
                                        !.last_checked_at = StartTime,
                                        !.last_video_id = "v1"],
                    OtherAccount>>
    /\ videos = <<DiscoveredRow("v1"), [DiscoveredRow("v3") EXCEPT !.account_id = OtherAccount.id]>>
    /\ tasks = [t \in TaskIds |-> IdleTask]
    /\ ticks = [k \in TickIds |-> [pc |-> "idle", result |-> ""]]
    /\ env = [items |-> {"v2"}, maxResults |-> MaxResults, ticks |-> PipelineTicks,
              drains |-> PipelineDrains, clockSteps |-> 0, overlap |-> TRUE,
              sinkVideoIds |-> {"tt1"}, faults |-> {"extractor", "sink"}]

\* the steps of a processing goroutine of either kind
ProcessingStep(t) ==
    \/ WorkerStep(t)
    \/ AcquireProcessingSlot(t)

NextResources ==
    \/ \E t \in TaskIds : ProcessingStep(t)
    \/ \E d \in DrainIds : DrainStep(d)
    \/ \E k \in TickIds : TickStep(k)
    \/ \E r \in RunIds : RunStep(r)

SpecResources == InitResources /\ [][NextResources]_vars

\* goroutine t is between its send on the admission channel of its kind
\* (p.workerPool, m.processingLimiter) and the deferred receive
HoldsSlot(t) == tasks[t].pc \notin {"idle", "acquire", "done"}
\* goroutine t is between the send on p.downloadSem and the return of downloadVideo
HoldsDownloadSem(t) == tasks[t].pc \in {"downloading", "persistPath", "markDownloaded"}
\* goroutine t is between the send on p.uploadSem and the return of uploadVideo
HoldsUploadSem(t) == tasks[t].pc \in {"uploading", "persistTikTokID"}

\* goroutine t has not returned yet
Unfinished(t) == tasks[t].pc \notin {"idle", "done"}

\* every token in a channel belongs to a goroutine that has not returned
\* from the function that sent it
NoTokenLeft ==
    /\ workerPool = Cardinality({t \in TaskIds : IsDrainWorker(t) /\ HoldsSlot(t)})
    /\ processingLimiter = Cardinality({t \in TaskIds : ~IsDrainWorker(t) /\ HoldsSlot(t)})
    /\ downloadSem = Cardinality({t \in TaskIds : HoldsDownloadSem(t)})
    /\ uploadSem = Cardinality({t \in TaskIds : HoldsUploadSem(t)})

\* the channel a step of goroutine t sends on or receives from, by the change
\* of its counter
Sends(c) == c' = c + 1
Receives(c) == c' = c - 1

StoredRow(t) ==
    LET i == VideoIndexByID(videos, tasks[t].video.id)
    IN  IF i = 0 THEN NilVideo ELSE videos[i]

\* goroutine t goes from position from to position to in this step
Moves(t, from, to) == tasks[t].pc = from /\ tasks'[t].pc = to

\* C28: when a goroutine calls the extractor the row of its video has status
\* downloading, and when it calls the sink the row has status uploading; when
\* it writes downloaded the row holds the file path of the download, and when
\* it writes completed the row holds the video id the sink returned.
C28_PersistedBeforeActing ==
    [][\A t \in TaskIds :
        /\ Moves(t, "waitDownload", "downloading")
              => StoredRow(t).status = VideoStatusDownloading
        /\ Moves(t, "waitUpload", "uploading")
              => StoredRow(t).status = VideoStatusUploading
        /\ Moves(t, "markDownloaded", "loadAccount")
              => StoredRow(t).local_file_path = FilePathOf(tasks[t].video.youtube_video_id)
        /\ Moves(t, "markCompleted", "done")
              => StoredRow(t).tiktok_video_id = tasks[t].tiktokVideoID]_vars

(***************************************************************************)
(* Progress (specification SpecProgress): the drain scenario with a store  *)
(* whose writes may fail and an extractor that may fail; every call        *)
(* returns, every goroutine that can take a step takes one and the cron    *)
(* entry of the drain keeps firing.                                        *)
(***************************************************************************)
InitProgress ==
    /\ InitComponents
    /\ accounts = <<[BootAccount EXCEPT !.last_checked_at = StartTime, !.last_video_id = "v1"]>>
    /\ admin = AfterBootstrap(1)
    /\ videos = <<DiscoveredRow("v1")>>
    /\ tasks = [t \in TaskIds |->
                  IF t = <<"tick", 1, "v1">>
                  THEN [IdleTask EXCEPT !.pc = "acquire", !.video = DiscoveredRow("v1")]
                  ELSE IdleTask]
    /\ ticks = [k \in TickIds |->
                  IF k = 1 THEN [pc |-> "done", result |-> "ok"] ELSE [pc |-> "idle", result |-> ""]]
    /\ env = [items |-> {"v1"}, maxResults |-> MaxResults, ticks |-> 0,
              drains |-> PipelineDrains, clockSteps |-> 0, overlap |-> TRUE,
              sinkVideoIds |-> {"tt1"}, faults |-> {"extractor", "store"}]

\* the Go scheduler runs every goroutine that is not blocked
FairGoroutines ==
    /\ \A t \in TaskIds : WF_vars(TaskStep(t))
    /\ \A d \in DrainIds : WF_vars(DrainStep(d))

\* the cron entry fires processVideosJob again after it has returned
NextProgress ==
    \/ NextDrains
    \/ \E d \in DrainIds : DrainReturns(d)

SpecProgress ==
    /\ InitProgress
    /\ [][NextProgress]_vars
    /\ FairGoroutines
    /\ \A d \in DrainIds : WF_vars(DrainReturns(d))

\* the statuses between pending and the two final ones
InProgressStatuses == {VideoStatusDownloading, VideoStatusDownloaded, VideoStatusUploading}

\* C29: every ProcessPendingVideos invocation that has started returns, and
\* a video whose stored status is downloading, downloaded or uploading gets
\* to completed or failed.
C29_Progress ==
    /\ \A d \in DrainIds : (drains[d].pc # "idle") ~> (drains[d].pc = "done")
    /\ (StatusOf("v1") \in InProgressStatuses)
          ~> (StatusOf("v1") \in {VideoStatusCompleted, VideoStatusFailed})

(***************************************************************************)
(* Sizes left out of the configuration file (specification SpecDefaults):  *)
(* the drain scenario for every file that gives or omits each of           *)
(* download.max_concurrent, upload.max_concurrent and worker_pool_size.    *)
(***************************************************************************)
\* the files: each key given (the size of the model) or omitted (0)
ConfigFiles ==
    {ConfigFile(d, u, w) : d \in {0, MaxConcurrentDownloads}, u \in {0, MaxConcurrentUploads},
                           w \in {0, WorkerPoolSize}}

InitDefaults ==
    /\ NewComponents
    /\ accounts = <<[BootAccount EXCEPT !.last_checked_at = StartTime, !.last_video_id = "v1"]>>
    /\ admin = AfterBootstrap(1)
    /\ videos = <<DiscoveredRow("v1")>>
    /\ tasks = [t \in TaskIds |->
                  IF t = <<"tick", 1, "v1">>
                  THEN [IdleTask EXCEPT !.pc = "acquire", !.video = DiscoveredRow("v1")]
                  ELSE IdleTask]
    /\ ticks = [k \in TickIds |->
                  IF k = 1 THEN [pc |-> "done", result |-> "ok"] ELSE [pc |-> "idle", result |-> ""]]
    /\ \E f \in ConfigFiles :
          /\ cfg = Load(f)
          /\ env = [items |-> {"v1"}, maxResults |-> MaxResults, ticks |-> 0,
                    drains |-> PipelineDrains, clockSteps |-> 0, overlap |-> TRUE,
                    sinkVideoIds |-> {"tt1"}, faults |-> {"extractor"}, configFile |-> f]

SpecDefaults == InitDefaults /\ [][NextDrains]_vars /\ FairGoroutines

\* the file omits download.max_concurrent or upload.max_concurrent
OmitsMaxConcurrent ==
    env.configFile.DownloadMaxConcurrent = 0 \/ env.configFile.UploadMaxConcurrent = 0

\* C30: when the file omits download.max_concurrent or upload.max_concurrent
\* the two semaphores still have room for one goroutine, and a video whose
\* status was set to downloading gets to completed or failed.
C30_DefaultsKeepLive ==
    /\ [](OmitsMaxConcurrent => (cfg.MaxConcurrentDownloads >= 1 /\ cfg.MaxConcurrentUploads >= 1))
    /\ (OmitsMaxConcurrent /\ StatusOf("v1") = VideoStatusDownloading)
          ~> (StatusOf("v1") \in {VideoStatusCompleted, VideoStatusFailed})

(***************************************************************************)
(* Waiting for a slot while the root context is cancelled (specification   *)
(* SpecShutdown).                                                          *)
(***************************************************************************)
\* the positions of a goroutine whose send has gone through and that has not
\* given the token back
AfterSend == {"begin", "downloading", "uploading"}

\* C31: a goroutine that was blocked at a send on the worker pool, the
\* download semaphore or the upload semaphore when its context was cancelled
\* does not get the slot it waited for, and so calls neither the extractor
\* nor the sink.
C31_SlotWaitsCancellable ==
    \A t \in TaskIds : tasks[t].blockedAtCancel => tasks[t].pc \notin AfterSend

(***************************************************************************)
(* The immediate-processing limiter (specification SpecLimiter): a         *)
(* discovery tick has stored two new videos and launched an immediate task *)
(* for each; the tasks run while main may call Stop.  The monitor runs     *)
(* them under context.Background(), or under the root context when         *)
(* SetBaseContext was called with it.                                      *)
(***************************************************************************)
BaseContexts == {"background", "root"}

InitLimiter ==
    /\ InitComponents
    /\ admin = AfterBootstrap(1)
    /\ \E c \in PausedJobCredentials :
          accounts = <<[BootAccount EXCEPT !.tiktok_access_token = c.access,
                                           !.tiktok_refresh_token = c.refresh,
                                           !.last_checked_at = StartTime,
                                           !.last_video_id = "v1"]>>
    /\ videos = <<DiscoveredRow("v1"), DiscoveredRow("v3")>>
    /\ tasks = [t \in TaskIds |->
                  IF t[1] = "tick" /\ t[2] = 1 /\ t[3] \in {"v1", "v3"}
                  THEN [IdleTask EXCEPT !.pc = "acquire", !.video = DiscoveredRow(t[3])]
                  ELSE IdleTask]
    /\ ticks = [k \in TickIds |->
                  IF k = 1 THEN [pc |-> "done", result |-> "ok"] ELSE [pc |-> "idle", result |-> ""]]
    /\ \E ctx \in BaseContexts :
          env = [items |-> {"v1", "v3"}, maxResults |-> MaxResults, ticks |-> 0,
                 drains |-> 0, clockSteps |-> 0, overlap |-> TRUE,
                 sinkVideoIds |-> {"tt1"}, faults |-> {"extractor"}, baseCtx |-> ctx]

NextLimiter ==
    \/ \E t \in TaskIds : ImmediateStep(t)
    \/ Stop

SpecLimiter == InitLimiter /\ [][NextLimiter]_vars

\* the immediate tasks between acquireProcessingSlot returning true and the
\* deferred releaseProcessingSlot
SlotHolders == {t \in TaskIds : ~IsDrainWorker(t) /\ HoldsSlot(t)}

\* goroutine t gives up its wait for a slot in this step
Abandons(t) == tasks[t].pc = "acquire" /\ tasks'[t].pc = "done"

\* C32: the tokens in the limiter are as many as the immediate tasks that
\* hold a slot, and never more than worker_pool_size; a step takes a token
\* out only when a task that holds a slot returns, and a task that gives up
\* its wait on a cancelled context leaves the limiter as it is.
C32_LimiterCountsHolders ==
    /\ [](processingLimiter = Cardinality(SlotHolders))
    /\ [](processingLimiter <= cfg.WorkerPoolSize)
    /\ [][/\ processingLimiter' < processingLimiter
                => \E t \in SlotHolders : tasks'[t].pc = "done" /\ Receives(processingLimiter)
          /\ \A t \in TaskIds : Abandons(t) => processingLimiter' = processingLimiter]_vars

\* C32 happens: the limiter is full with one task holding the slot, and
\* the other task has given up its wait after the cancellation.
C32_Witness ==
    /\ processingLimiter = LimiterSize
    /\ \E t, u \in TaskIds :
          /\ t \in SlotHolders
          /\ tasks[u].pc = "done"
          /\ tasks[u].err = "context cancelled before slot available"

(***************************************************************************)
(* Two jobs in one discovery tick (specification SpecJobs): neither job    *)
(* has been checked yet; v1 and v2 are on the channel of the first, v3 is  *)
(* on the channel of the second; the source and the store may fail.        *)
(***************************************************************************)
\* the channel of the second job holds v3, the channel of the first the rest
TwoChannels == [v \in VideoIds |-> IF v = "v3" THEN "UCdef" ELSE "UCabc"]

InitJobs ==
    /\ InitComponents
    /\ accounts = <<BootAccount,
                    [OtherAccount EXCEPT !.last_checked_at = ZeroTime, !.last_video_id = ""]>>
    /\ admin = AfterBootstrap(2)
    /\ videos = <<>>
    /\ tasks = [t \in TaskIds |-> IdleTask]
    /\ ticks = [k \in TickIds |-> [pc |-> "idle", result |-> ""]]
    /\ env = [items |-> {"v1", "v2", "v3"}, maxResults |-> MaxResults, ticks |-> PipelineTicks,
              drains |-> 0, clockSteps |-> 0, overlap |-> FALSE,
              sinkVideoIds |-> {"tt1"}, faults |-> {"source", "store"},
              channelOf |-> TwoChannels]

SpecJobs == InitJobs /\ [][NextDiscovery]_vars

\* monitorAccount goroutine r returns in this step
RunReturns(r) == runs[r].pc # "done" /\ runs'[r].pc = "done"

\* the row of the job of goroutine r in the table as
JobRow(as, r) == as[AccountIndexByID(as, r[2])]

\* the videos of the listing of goroutine r that it has to store: not in the
\* store when the listing came and not older than the bootstrap cutoff
NewInListing(r) ==
    {v \in ListingIds(runs[r]) : v \notin runs[r].before /\ PassesBootstrap(runs[r], v)}

\* C33: within one tick, a monitorAccount goroutine that returns an error
\* (the source call, a lookup, a save or the update failed) leaves the table
\* accounts as it is; a goroutine none of whose own calls failed stores every
\* new video of its listing, sets last_checked_at of its job to now and
\* launches the immediate task of every video it stored, whatever the other
\* goroutine of the tick does; and the tick returns only when every
\* goroutine has returned, with an error exactly when one of them has one.
C33_JobsIndependent ==
    [][/\ accounts' # accounts => \E r \in RunIds : RunReturns(r) /\ runs'[r].err = ""
       /\ \A r \in RunIds :
            /\ (RunReturns(r) /\ runs'[r].err # "") => accounts' = accounts
            /\ (RunReturns(r) /\ runs'[r].err = "") =>
                  /\ NewInListing(r) \subseteq StoredIds(videos)
                  /\ PersistedIds(runs[r]) = NewInListing(r)
                  /\ JobRow(accounts', r).last_checked_at = now
                  /\ \A v \in PersistedIds(runs[r]) : tasks'[<<"tick", r[1], v>>].pc = "acquire"
                  /\ \A q \in RunIds : q[2] # r[2] => JobRow(accounts', q) = JobRow(accounts, q)
       /\ \A k \in TickIds :
            (ticks[k].pc = "wait" /\ ticks'[k].pc = "done") =>
                  /\ \A r \in TickRuns(k) : runs[r].pc \in {"idle", "done"}
                  /\ (ticks'[k].result = "error") = (\E r \in TickRuns(k) : runs[r].err # "")]_vars

\* C33 happens: the tick has returned an error; the scan of the first job
\* failed and its last_checked_at is still zero, while the video of the
\* second job is stored, its last_checked_at is now and the immediate task
\* of the video is launched.
C33_Witness ==
    /\ ticks[1] = [pc |-> "done", result |-> "error"]
    /\ accounts[1].last_checked_at = ZeroTime
    /\ accounts[2].last_checked_at = now
    /\ accounts[2].last_video_id = "v3"
    /\ "v3" \in StoredIds(videos)
    /\ tasks[<<"tick", 1, "v3">>].pc = "acquire"

(***************************************************************************)
(* The bookkeeping of discovery (specification SpecDiscovery).             *)
(***************************************************************************)
\* the video with source id later was stored for job accountID after the
\* one with source id earlier (the rows of the table are in insertion order)
PersistedLater(vs, accountID, earlier, later) ==
    /\ GetByYouTubeID(vs, later) # 0
    /\ vs[GetByYouTubeID(vs, later)].account_id = accountID
    /\ GetByYouTubeID(vs, later) > GetByYouTubeID(vs, earlier)

\* C34: for every job, last_checked_at never decreases, and once
\* last_video_id names a video it is only replaced by the source id of a
\* video stored later for the job, also when two ticks of the job overlap.
C34_BookkeepingMovesForward ==
    [][\A i \in DOMAIN accounts :
          (i \in DOMAIN accounts' /\ accounts'[i].id = accounts[i].id) =>
              /\ accounts'[i].last_checked_at >= accounts[i].last_checked_at
              /\ (accounts[i].last_video_id # ""
                      /\ accounts'[i].last_video_id # accounts[i].last_video_id)
                    => PersistedLater(videos', accounts[i].id, accounts[i].last_video_id,
                                      accounts'[i].last_video_id)]_vars

(***************************************************************************)
(* The access token of a stored job (specification SpecTokens): a job      *)
(* whose token the sink rejects has a pending video; a drain processes it  *)
(* while calls are made to the AccountManager and entries are              *)
(* bootstrapped; the sink may answer a refresh without a token.            *)
(***************************************************************************)
InitTokens ==
    /\ InitComponents
    /\ admin = AfterBootstrap(1)
    /\ accounts = <<[BootAccount EXCEPT !.tiktok_access_token = "Told",
                                        !.tiktok_refresh_token = "R0",
                                        !.last_checked_at = StartTime,
                                        !.last_video_id = "v1"]>>
    /\ videos = <<DiscoveredRow("v1")>>
    /\ tasks = [t \in TaskIds |-> IdleTask]
    /\ ticks = [k \in TickIds |-> [pc |-> "idle", result |-> ""]]
    /\ env = [items |-> {"v1"}, maxResults |-> MaxResults, ticks |-> 0,
              drains |-> PipelineDrains, clockSteps |-> 0, overlap |-> TRUE,
              sinkVideoIds |-> {"tt1"}, faults |-> {"tokens"}]

\* the calls that write a token: the creation of a second job, an update of
\* the token of a job, the token update after a code exchange, and the
\* bootstrap of an entry that leaves is_active alone
TokenCallStep ==
    \/ \E tok \in {"", "T0"} : CreateAccountMapping("UCdef", "ttk456", tok)
    \/ \E id \in CallAccountIds, tok \in {"", "T1"} :
            UpdateAccountMapping(id, "", "", tok, "nil")
    \/ \E id \in CallAccountIds, tok \in {"", "T1"}, ref \in {"", "R1"}, exp \in {0, 2} :
            UpdateAccountTokens(id, tok, ref, exp)
    \/ \E acc \in BootstrapEntries : acc.IsActive = "nil" /\ BootstrapAccount(acc)

NextTokens ==
    \/ \E t \in TaskIds : WorkerStep(t)
    \/ \E d \in DrainIds : DrainStep(d)
    \/ TokenCallStep

SpecTokens == InitTokens /\ [][NextTokens]_vars

\* C35: every stored job has an access token that is not the empty string.
C35_AccessTokenNeverEmpty ==
    \A i \in DOMAIN accounts : accounts[i].tiktok_access_token # ""

(***************************************************************************)
(* What a token refresh of the pipeline writes (specification SpecPause).  *)
(***************************************************************************)
\* the table accounts after a write of nothing but the three token columns
\* of the job of goroutine t, from the account object the goroutine holds
WithTokensOf(as, t) ==
    [as EXCEPT ![AccountIndexByID(as, tasks[t].account.id)] =
        [@ EXCEPT !.tiktok_access_token = tasks[t].account.tiktok_access_token,
                  !.tiktok_refresh_token = tasks[t].account.tiktok_refresh_token,
                  !.tiktok_token_expires_at = tasks[t].account.tiktok_token_expires_at]]

\* C36: when a goroutine saves the tokens of a refresh, the row of the job
\* changes in its access token, refresh token and expiry only; the other
\* columns keep the values the store holds at the moment of the write, also
\* when the job was deactivated or scanned since the goroutine read it.
C36_RefreshWritesOnlyTokens ==
    [][\A t \in TaskIds : SavedRefresh(t) => accounts' = WithTokensOf(accounts, t)]_vars

(***************************************************************************)
(* The final statuses (specification SpecDrains).                          *)
(***************************************************************************)
TerminalStatuses == {VideoStatusCompleted, VideoStatusFailed}

\* C37: once the row of a video has status completed or failed, no step of
\* a drain, an immediate task or a discovery run changes its status, its
\* file path or its sink video id.
C37_TerminalStatusStable ==
    [][\A i \in DOMAIN videos :
          (videos[i].status \in TerminalStatuses /\ i \in DOMAIN videos') =>
              /\ videos'[i].status = videos[i].status
              /\ videos'[i].local_file_path = videos[i].local_file_path
              /\ videos'[i].tiktok_video_id = videos[i].tiktok_video_id]_vars

(***************************************************************************)
(* The token check before a publish (specification SpecPublish): a job     *)
(* with a pending video, its token accepted by the sink or rejected beside *)
(* a refresh token; one drain; the sink and the store may fail a call.     *)
(***************************************************************************)
InitPublish ==
    /\ InitComponents
    /\ admin = AfterBootstrap(1)
    /\ \E c \in PausedJobCredentials :
          accounts = <<[BootAccount EXCEPT !.tiktok_access_token = c.access,
                                           !.tiktok_refresh_token = c.refresh,
                                           !.last_checked_at = StartTime,
                                           !.last_video_id = "v1"]>>
    /\ videos = <<DiscoveredRow("v1")>>
    /\ tasks = [t \in TaskIds |-> IdleTask]
    /\ ticks = [k \in TickIds |-> [pc |-> "idle", result |-> ""]]
    /\ env = [items |-> {"v1"}, maxResults |-> MaxResults, ticks |-> 0,
              drains |-> PipelineDrains, clockSteps |-> 0, overlap |-> TRUE,
              sinkVideoIds |-> {"tt1"}, faults |-> {"sink", "store"}]

SpecPublish == InitPublish /\ [][NextCredentials]_vars

\* goroutine t gets to position pc in this step
Reaches(t, pc) == tasks[t].pc # pc /\ tasks'[t].pc = pc

\* the errors of uploadVideo when the token check fails for goroutine t:
\* verify could not be made, the refresh failed, the new tokens were not saved
TokenCheckErrors(t) ==
    {"failed to verify access token", RefreshFailedError(tasks[t].account.id),
     "failed to save refreshed token"}

\* C38: with web upload off, a goroutine goes on to the publish only after
\* verify has returned true for the token of the job or after the tokens of a
\* refresh have been saved, and it calls the sink only from there; when
\* verify fails with a transport error, the refresh fails or the save of the
\* new tokens fails, the goroutine makes no publish call and the row of the
\* video goes from downloaded to failed.
C38_PublishOnlyAfterTokenCheck ==
    [][\A t \in TaskIds :
          /\ Reaches(t, "markUploading") =>
                \/ /\ tasks[t].pc = "verify"
                   /\ tasks[t].account.tiktok_access_token \in sinkValid
                \/ /\ tasks[t].pc = "saveAccount"
                   /\ StoredAccount(accounts', t) = tasks[t].account
          /\ Reaches(t, "waitUpload") => tasks[t].pc = "markUploading"
          /\ Reaches(t, "uploading") => tasks[t].pc = "waitUpload"
          /\ (tasks[t].pc \in {"verify", "refresh", "saveAccount"} /\ Reaches(t, "failing"))
                => tasks'[t].err \in TokenCheckErrors(t) \cup {NoRefreshTokenError(tasks[t].account.id)}
          /\ (tasks[t].pc = "failing" /\ tasks[t].err \in TokenCheckErrors(t) /\ Reaches(t, "done"))
                => /\ uploadCalls' = uploadCalls
                   /\ StoredRow(t).status = VideoStatusDownloaded
                   /\ videos' = UpdateStatus(videos, tasks[t].video.id, VideoStatusFailed,
                                             tasks[t].err)]_vars

=============================================================================
